---------------------------- MODULE Spec2Model ----------------------------
(***************************************************************************)
(* Model of the microsporidia text-mining scripts                          *)
(* (src/src/2_predict_traits/*.py).                                        *)
(*                                                                         *)
(* The scripts are single-threaded batch jobs.  The model has one          *)
(* specification per part of the program:                                  *)
(*   SpecCache  get_cached_text and its two spaCy caches                   *)
(*   SpecGeo    set_as_region_or_subregion / assign_to_region_or_subregion *)
(*              and GEONAMES_CACHE                                         *)
(* Third-party calls (spaCy pipelines, geocoder.geonames) are modelled as  *)
(* fixed tables: what the library answers for a given input.               *)
(***************************************************************************)
EXTENDS Integers, Sequences, FiniteSets, TLC

VARIABLES
    CACHED_TEXT_BIO,     \* predict_host_infected_tissues.py:46, dict txt -> Doc
    CACHED_TEXT_LARGE,   \* predict_host_infected_tissues.py:47, dict txt -> Doc
    nlp_calls,           \* how often each spaCy pipeline processed each text
    call,                \* the last get_cached_text call: its arguments and result
    ncalls,              \* number of calls made so far (bounded)
    module,              \* which locality module is loaded
    GEONAMES_CACHE,      \* predict_localities.py:36-41 / locality_test.py:35-40
    geonames_requests,   \* how often geocoder.geonames was asked for each location
    regions,             \* the regions dictionary the caller passes in
    geo,                 \* the last locality call: arguments, regions before, exception
    SPACY_CACHE,         \* predict_microsp_and_host_names.py:62
    script,              \* the script of the current run
    pc,                  \* where the run is: idle, import, read, prepare, rows, write, done, raised
    csv,                 \* the rows of the input CSV on disk
    pickle,              \* geonames_cache.pickle on disk: whether it exists, its content
    data,                \* microsp_data, the dataframe of the run
    phase,               \* which pass over the rows the run is in
    rowIdx,              \* the row the current pass is at
    received,            \* the calls of prediction and cleaning functions so far
    predicted,           \* number of rows whose prediction was computed
    reads,               \* number of reads of the input CSV in this run
    written,             \* number of writes of the output CSV in this run
    exc,                 \* the exception that ended the run ("" when none)
    stored,              \* keys this run has put into a cache
    storedEarlier,       \* keys earlier runs had put into a cache
    runs,                \* number of runs started
    fnIn,                \* the argument of the function under test
    fnOut,               \* what the function returned
    fnPc,                \* "ready" before the call, "done" after it
    proc                 \* the processes of the side-by-side runs

cacheVars == <<CACHED_TEXT_BIO, CACHED_TEXT_LARGE, nlp_calls, call>>
geoVars == <<module, GEONAMES_CACHE, geonames_requests, regions, geo>>
runVars == <<SPACY_CACHE, script, pc, csv, pickle, data, phase, rowIdx, received, predicted,
            reads, written, exc, stored, storedEarlier, runs>>
vars == <<CACHED_TEXT_BIO, CACHED_TEXT_LARGE, nlp_calls, call, ncalls,
          module, GEONAMES_CACHE, geonames_requests, regions, geo,
          SPACY_CACHE, script, pc, csv, pickle, data, phase, rowIdx, received, predicted,
          reads, written, exc, stored, storedEarlier, runs, fnIn, fnOut, fnPc, proc>>
fnVars == <<fnIn, fnOut, fnPc, proc>>

-----------------------------------------------------------------------------
(* Bounds *)

MaxCalls == 5
MaxGeoCalls == 4
MaxLocs == 2
MaxRows == 2
MaxRuns == 2

-----------------------------------------------------------------------------
(* Python values *)

None == "None"

\* the empty dict {}
EmptyDict == <<>>

\* d[k] = v on a dict
Put(d, k, v) == [x \in (DOMAIN d) \cup {k} |-> IF x = k THEN v ELSE d[x]]

-----------------------------------------------------------------------------
(* get_cached_text: predict_host_infected_tissues.py:44-68 *)

\* the title_abstract texts of the model's corpus
Texts == {"T1", "T2", "T3"}

\* nlp_bio(txt): the Doc the en_ner_bionlp13cg_md pipeline makes of txt
nlp_bio(txt) == [model |-> "en_ner_bionlp13cg_md", text |-> txt]

\* nlp_large(txt): the Doc the en_core_sci_lg pipeline makes of txt
nlp_large(txt) == [model |-> "en_core_sci_lg", text |-> txt]

\* no Doc (before the first call)
NoDoc == [model |-> None, text |-> ""]

NoCall == [txt |-> "", spacy_large |-> FALSE, ret |-> NoDoc]

\* mutant of get_cached_text: the `txt not in cache` tests are dropped
get_cached_text_always_process(txt, spacy_large) ==
    IF spacy_large
    THEN /\ CACHED_TEXT_LARGE' = Put(CACHED_TEXT_LARGE, txt, nlp_large(txt))
         /\ nlp_calls' = [nlp_calls EXCEPT !["large"][txt] = @ + 1]
         /\ call' = [txt |-> txt, spacy_large |-> TRUE, ret |-> CACHED_TEXT_LARGE'[txt]]
         /\ UNCHANGED CACHED_TEXT_BIO
    ELSE /\ CACHED_TEXT_BIO' = Put(CACHED_TEXT_BIO, txt, nlp_bio(txt))
         /\ nlp_calls' = [nlp_calls EXCEPT !["bio"][txt] = @ + 1]
         /\ call' = [txt |-> txt, spacy_large |-> FALSE, ret |-> CACHED_TEXT_BIO'[txt]]
         /\ UNCHANGED CACHED_TEXT_LARGE

get_cached_text(txt, spacy_large) ==
    IF spacy_large
    THEN /\ IF txt \notin DOMAIN CACHED_TEXT_LARGE
            THEN /\ CACHED_TEXT_LARGE' = Put(CACHED_TEXT_LARGE, txt, nlp_large(txt))
                 /\ nlp_calls' = [nlp_calls EXCEPT !["large"][txt] = @ + 1]
            ELSE UNCHANGED <<CACHED_TEXT_LARGE, nlp_calls>>
         /\ call' = [txt |-> txt, spacy_large |-> TRUE, ret |-> CACHED_TEXT_LARGE'[txt]]
         /\ UNCHANGED CACHED_TEXT_BIO
    ELSE /\ IF ~(txt \in DOMAIN CACHED_TEXT_BIO)
            THEN /\ CACHED_TEXT_BIO' = Put(CACHED_TEXT_BIO, txt, nlp_bio(txt))
                 /\ nlp_calls' = [nlp_calls EXCEPT !["bio"][txt] = @ + 1]
            ELSE UNCHANGED <<CACHED_TEXT_BIO, nlp_calls>>
         /\ call' = [txt |-> txt, spacy_large |-> FALSE, ret |-> CACHED_TEXT_BIO'[txt]]
         /\ UNCHANGED CACHED_TEXT_LARGE

CacheInit ==
    /\ CACHED_TEXT_BIO = EmptyDict
    /\ CACHED_TEXT_LARGE = EmptyDict
    /\ nlp_calls = [m \in {"bio", "large"} |-> [t \in Texts |-> 0]]
    /\ call = NoCall

GeoIdle ==
    /\ module = "none"
    /\ GEONAMES_CACHE = EmptyDict
    /\ geonames_requests = <<>>
    /\ regions = EmptyDict
    /\ geo = None

\* no script is running
RunIdle ==
    /\ SPACY_CACHE = EmptyDict
    /\ script = "" /\ pc = "idle"
    /\ csv = <<>> /\ pickle = [exists |-> FALSE, content |-> EmptyDict]
    /\ data = <<>> /\ phase = 0 /\ rowIdx = 0
    /\ received = {} /\ predicted = 0 /\ reads = 0 /\ written = 0 /\ exc = ""
    /\ stored = {} /\ storedEarlier = {} /\ runs = 0

\* no function is under test
FnIdle == fnIn = <<>> /\ fnOut = <<>> /\ fnPc = "idle" /\ proc = <<>>

InitCache == CacheInit /\ ncalls = 0 /\ GeoIdle /\ RunIdle /\ FnIdle

CallGetCachedText ==
    /\ ncalls < MaxCalls
    /\ ncalls' = ncalls + 1
    /\ \E txt \in Texts, spacy_large \in BOOLEAN : get_cached_text(txt, spacy_large)
    /\ UNCHANGED <<geoVars, runVars, fnVars>>

NextCache == CallGetCachedText

SpecCache == InitCache /\ [][NextCache]_vars

CachedDocOk(cache, pipeline) ==
    \A t \in DOMAIN cache : cache[t].model = pipeline /\ cache[t].text = t

C2_State ==
    /\ \A m \in {"bio", "large"} : \A t \in Texts : nlp_calls[m][t] <= 1
    /\ CachedDocOk(CACHED_TEXT_BIO, "en_ner_bionlp13cg_md")
    /\ CachedDocOk(CACHED_TEXT_LARGE, "en_core_sci_lg")
    /\ call # NoCall =>
          /\ call.ret # NoDoc
          /\ call.ret.text = call.txt
          /\ call.ret.model =
                (IF call.spacy_large THEN "en_core_sci_lg" ELSE "en_ner_bionlp13cg_md")
          /\ call.txt \in DOMAIN (IF call.spacy_large THEN CACHED_TEXT_LARGE
                                                     ELSE CACHED_TEXT_BIO)
          /\ call.ret = (IF call.spacy_large THEN CACHED_TEXT_LARGE
                                             ELSE CACHED_TEXT_BIO)[call.txt]

C2_Step ==
    /\ \A t \in DOMAIN CACHED_TEXT_BIO :
          t \in DOMAIN CACHED_TEXT_BIO' /\ CACHED_TEXT_BIO'[t] = CACHED_TEXT_BIO[t]
    /\ \A t \in DOMAIN CACHED_TEXT_LARGE :
          t \in DOMAIN CACHED_TEXT_LARGE' /\ CACHED_TEXT_LARGE'[t] = CACHED_TEXT_LARGE[t]
    /\ (ncalls' = ncalls + 1 /\ call'.spacy_large) =>
          /\ CACHED_TEXT_BIO' = CACHED_TEXT_BIO
          /\ nlp_calls'["bio"] = nlp_calls["bio"]
    /\ (ncalls' = ncalls + 1 /\ ~call'.spacy_large) =>
          /\ CACHED_TEXT_LARGE' = CACHED_TEXT_LARGE
          /\ nlp_calls'["large"] = nlp_calls["large"]

\* C2: each spaCy model processes a text at most once; a cached entry is never
\* removed or replaced; a spacy_large call leaves the bio cache alone and a bio
\* call leaves the large cache alone; every call returns the document stored for
\* its text under the requested model.
C2_CacheOncePerModel == []C2_State /\ [][C2_Step]_vars

\* a call was answered from a cache while both caches hold documents
C2_Witness ==
    /\ ncalls > Cardinality(DOMAIN CACHED_TEXT_BIO) + Cardinality(DOMAIN CACHED_TEXT_LARGE)
    /\ \E t \in Texts : t \in DOMAIN CACHED_TEXT_BIO /\ t \in DOMAIN CACHED_TEXT_LARGE
    /\ call.txt \in DOMAIN CACHED_TEXT_BIO /\ call.txt \in DOMAIN CACHED_TEXT_LARGE

-----------------------------------------------------------------------------
(* Localities: predict_localities.py and its older version locality_test.py *)

Locations == {"Atlantis", "Paris", "Weddell Sea"}

\* geocoder.geonames(loc, key=USERNAME, maxRows=50): the search results for loc,
\* each with a country and a canonical address
geocoder_geonames(loc) ==
    CASE loc = "Atlantis" -> <<>>
      [] loc = "Paris" -> << [country |-> "France", address |-> "Paris"],
                             [country |-> "United States", address |-> "Paris"] >>
      [] loc = "Weddell Sea" -> << [country |-> "", address |-> "Weddell Sea"] >>
      [] OTHER -> <<>>

\* get_top_region_hit: the first result whose address is the location
\* (both lower-cased; the table's names are in one case), else the first result
get_top_region_hit(location, geonames_result) ==
    LET exact_matches == SelectSeq(geonames_result, LAMBDA res : res.address = location)
    IN  IF exact_matches # <<>> THEN exact_matches[1] ELSE geonames_result[1]

\* The comprehension of predict_localities.py:130-131 unpacks enumerate() as
\* (res, i): res is the int index, and `res.country` raises AttributeError on
\* the first element.  (.sort() of the list would then give None.)
likely_regions_of(geonames_result, geo_preds_regions) ==
    IF Len(geonames_result) > 0 THEN "AttributeError" ELSE None

\* get_most_likely_region of predict_localities.py: [raised, value], where
\* value is None or <<region, normalized name>>
get_most_likely_region(location, geonames_result, geo_preds_regions) ==
    IF geonames_result = <<>>
    THEN [raised |-> "", value |-> None]
    ELSE LET likely_regions == likely_regions_of(geonames_result, geo_preds_regions)
             top_region_hit == get_top_region_hit(location, geonames_result)
         IN  IF likely_regions = "AttributeError"
             THEN [raised |-> "AttributeError", value |-> None]
             ELSE \* `not likely_regions`: likely_regions is None here
                  IF top_region_hit.country = ""
                  THEN [raised |-> "",
                        value |-> <<top_region_hit.address, top_region_hit.address>>]
                  ELSE [raised |-> "",
                        value |-> <<top_region_hit.country, top_region_hit.address>>]

\* mutant of CacheStore: the search result is not stored
CacheStoreDropped(cache, loc, geonames_result) == cache

\* GEONAMES_CACHE[loc] = geonames_result
CacheStore(cache, loc, geonames_result) == Put(cache, loc, geonames_result)

\* the lookup of predict_localities.py:156-163 and locality_test.py:181-189:
\* [result, cache, requests]
LookupGeonames(loc, cache, requests) ==
    IF loc \notin DOMAIN cache
    THEN LET geonames_result == geocoder_geonames(loc)
         IN  [result |-> geonames_result,
              cache |-> CacheStore(cache, loc, geonames_result),
              requests |-> [requests EXCEPT ![loc] = @ + 1]]
    ELSE [result |-> cache[loc], cache |-> cache, requests |-> requests]

\* set_as_region_or_subregion(loc, regions), predict_localities.py:151-185, on
\* st = [cache, requests, regions]: the new cache, requests and regions, the
\* geonames result used and the exception raised ("" when none)
SetAsRegionOrSubregion(loc, st) ==
    LET region_names == DOMAIN st.regions
        looked == LookupGeonames(loc, st.cache, st.requests)
        r == get_most_likely_region(loc, looked.result, region_names)
        most_likely_region == r.value[1]
        normalized_location_name == r.value[2]
        raised(e) == [cache |-> looked.cache, requests |-> looked.requests,
                      regions |-> st.regions, result |-> looked.result, exc |-> e]
        done(new_regions) == [cache |-> looked.cache, requests |-> looked.requests,
                              regions |-> new_regions, result |-> looked.result,
                              exc |-> ""]
    IN  IF r.raised # ""
        THEN raised(r.raised)
        ELSE IF r.value = None
        THEN \* line 165 unpacks None into two names
             raised("TypeError")
        ELSE IF most_likely_region = ""
        THEN done(Put(st.regions, loc, [subregions |-> EmptyDict, found_as |-> <<loc>>]))
        ELSE IF most_likely_region = normalized_location_name
        THEN done(Put(st.regions, most_likely_region,
                      [subregions |-> EmptyDict, found_as |-> <<loc>>]))
        ELSE IF most_likely_region \in DOMAIN st.regions
        THEN IF normalized_location_name
                   \notin DOMAIN st.regions[most_likely_region].subregions
             THEN done([st.regions EXCEPT ![most_likely_region].subregions =
                           Put(@, normalized_location_name, <<loc>>)])
             ELSE done([st.regions EXCEPT
                           ![most_likely_region].subregions[normalized_location_name] =
                               Append(@, loc)])
        ELSE done(Put(st.regions, most_likely_region,
                      [subregions |-> Put(EmptyDict, normalized_location_name, <<loc>>),
                       found_as |-> <<most_likely_region>>]))

\* a call set_as_region_or_subregion(loc, regions) on the module's state
set_as_region_or_subregion(loc) ==
    LET st == SetAsRegionOrSubregion(loc, [cache |-> GEONAMES_CACHE,
                                           requests |-> geonames_requests,
                                           regions |-> regions])
    IN  /\ GEONAMES_CACHE' = st.cache
        /\ geonames_requests' = st.requests
        /\ regions' = st.regions
        /\ geo' = [fn |-> "set_as_region_or_subregion", locs |-> <<loc>>,
                   before |-> regions, result |-> st.result, exc |-> st.exc]

\* get_most_likely_region of locality_test.py:144-163: None or a country
get_most_likely_region_test(geonames_result, geo_preds_regions) ==
    IF geonames_result = <<>>
    THEN None
    ELSE LET likely_regions ==
                 SelectSeq(geonames_result, LAMBDA res : res.country \in geo_preds_regions)
             top_region_hit == geonames_result[1].country
         IN  IF (\E i \in 1..Len(likely_regions) : likely_regions[i].country = top_region_hit)
                \/ likely_regions = <<>>
             THEN top_region_hit
             ELSE likely_regions[1].country

\* Elements of a 'subregions' list of locality_test.py are strings (line 196
\* stores the list found_as[i] itself) or lists (line 202 appends found_as[i]).
StrItem(s) == [kind |-> "str", v |-> s]
ListItem(l) == [kind |-> "list", v |-> l]
ItemEq(a, b) == a.kind = b.kind /\ a.v = b.v

\* one pass of the loop of assign_to_region_or_subregion (locality_test.py:179-202)
\* over locations[i..], on st = [cache, requests, regions]
RECURSIVE AssignLoop(_, _, _, _)
AssignLoop(locations, found_as, i, st) ==
    IF i > Len(locations)
    THEN st
    ELSE LET loc == locations[i]
             looked == LookupGeonames(loc, st.cache, st.requests)
             loc_region == get_most_likely_region_test(looked.result, DOMAIN st.regions)
             new_regions ==
                 IF loc_region = None \/ loc_region = ""
                 THEN Put(st.regions, loc,
                          [found_as |-> found_as[i], subregions |-> <<>>])
                 ELSE IF loc_region \notin DOMAIN st.regions
                 THEN Put(st.regions, loc_region,
                          [found_as |-> <<loc_region>>,
                           subregions |-> [k \in 1..Len(found_as[i]) |->
                                              StrItem(found_as[i][k])]])
                 ELSE IF \A k \in 1..Len(st.regions[loc_region].subregions) :
                             ~ItemEq(st.regions[loc_region].subregions[k], ListItem(found_as[i]))
                 THEN [st.regions EXCEPT ![loc_region].subregions =
                          Append(@, ListItem(found_as[i]))]
                 ELSE st.regions
         IN  AssignLoop(locations, found_as, i + 1,
                        [cache |-> looked.cache, requests |-> looked.requests,
                         regions |-> new_regions])

\* assign_to_region_or_subregion(locations, geo_preds, found_as), called as in
\* locality_test.py:239 with found_as = [[t] for t in locations]
assign_to_region_or_subregion(locations) ==
    LET found_as == [i \in 1..Len(locations) |-> <<locations[i]>>]
        st == AssignLoop(locations, found_as, 1,
                         [cache |-> GEONAMES_CACHE, requests |-> geonames_requests,
                          regions |-> regions])
    IN  /\ GEONAMES_CACHE' = st.cache
        /\ geonames_requests' = st.requests
        /\ regions' = st.regions
        /\ geo' = [fn |-> "assign_to_region_or_subregion", locs |-> locations,
                   before |-> regions,
                   result |-> geocoder_geonames(locations[Len(locations)]),
                   exc |-> ""]

\* the lists of locations a caller passes: up to MaxLocs locations
LocationLists == UNION {[1..n -> Locations] : n \in 1..MaxLocs}

\* the countries flashgeotext has put into regions before the geonames pass
\* (predict_localities.py:203-208)
CountryRegions ==
    {EmptyDict,
     [c \in {"France"} |-> [subregions |-> EmptyDict, found_as |-> <<"France">>]]}

\* geo_preds['regions'] of locality_test.py before the geonames pass
CountryRegionsTest ==
    {EmptyDict,
     [c \in {"France"} |-> [found_as |-> <<"France">>, subregions |-> <<>>]]}

NoGeoCall == [fn |-> "", locs |-> <<>>, before |-> EmptyDict, result |-> <<>>, exc |-> ""]

\* module import: predict_localities.py:36-41, locality_test.py:35-40.  No run
\* of the program writes geonames_cache.pickle (the save is commented out,
\* predict_localities.py:450-454), so the cache starts as {}.
InitGeo ==
    /\ CacheInit /\ ncalls = 0
    /\ module \in {"predict_localities", "locality_test"}
    /\ GEONAMES_CACHE = EmptyDict
    /\ geonames_requests = [l \in Locations |-> 0]
    /\ regions \in (IF module = "predict_localities" THEN CountryRegions
                                                     ELSE CountryRegionsTest)
    /\ geo = NoGeoCall
    /\ RunIdle /\ FnIdle

\* a call of set_as_region_or_subregion, as by predict_localities.py:219-220
CallSetAsRegionOrSubregion ==
    /\ module = "predict_localities"
    /\ ncalls < MaxGeoCalls
    /\ ncalls' = ncalls + 1
    /\ \E loc \in Locations : set_as_region_or_subregion(loc)
    /\ UNCHANGED <<cacheVars, module, runVars, fnVars>>

\* a call of assign_to_region_or_subregion, as by locality_test.py:239
CallAssignToRegionOrSubregion ==
    /\ module = "locality_test"
    /\ ncalls < MaxGeoCalls
    /\ ncalls' = ncalls + 1
    /\ \E locations \in LocationLists : assign_to_region_or_subregion(locations)
    /\ UNCHANGED <<cacheVars, module, runVars, fnVars>>

\* the next text: regions starts again from the countries of that text
\* (predict_localities.py:197-208, locality_test.py:230)
NextText ==
    /\ ncalls < MaxGeoCalls
    /\ geo.fn # ""
    /\ regions' \in (IF module = "predict_localities" THEN CountryRegions
                                                      ELSE CountryRegionsTest)
    /\ regions' # regions
    /\ geo' = NoGeoCall
    /\ UNCHANGED <<cacheVars, ncalls, module, GEONAMES_CACHE, geonames_requests, runVars, fnVars>>

NextGeo ==
    \/ CallSetAsRegionOrSubregion
    \/ CallAssignToRegionOrSubregion
    \/ NextText

SpecGeo == InitGeo /\ [][NextGeo]_vars

C3_State ==
    /\ \A l \in Locations :
          /\ geonames_requests[l] <= 1
          /\ (l \in DOMAIN GEONAMES_CACHE) <=> (geonames_requests[l] = 1)
          /\ l \in DOMAIN GEONAMES_CACHE => GEONAMES_CACHE[l] = geocoder_geonames(l)
    /\ \A i \in 1..Len(geo.locs) : geo.locs[i] \in DOMAIN GEONAMES_CACHE

C3_Step ==
    \A l \in DOMAIN GEONAMES_CACHE :
        /\ geonames_requests'[l] = geonames_requests[l]
        /\ l \in DOMAIN GEONAMES_CACHE'
        /\ GEONAMES_CACHE'[l] = GEONAMES_CACHE[l]

\* C3: geonames is asked at most once per location: the first call for a
\* location stores the search result in GEONAMES_CACHE, an empty result too,
\* and a later call for that location makes no request and keeps the entry.
C3_GeonamesOncePerLocation == []C3_State /\ [][C3_Step]_vars

\* a location without search results was looked up again after it was cached
C3_Witness ==
    /\ module = "predict_localities"
    /\ ncalls > Cardinality(DOMAIN GEONAMES_CACHE)
    /\ "Atlantis" \in DOMAIN GEONAMES_CACHE
    /\ GEONAMES_CACHE["Atlantis"] = <<>>
    /\ geo.locs = <<"Atlantis">>
    /\ geonames_requests["Atlantis"] = 1

\* C7: with no geonames search results, get_most_likely_region returns None and
\* set_as_region_or_subregion records the location as its own region, with no
\* subregions and found_as = [location], raises nothing and changes no other
\* region.
C7_NoResultsBecomesOwnRegion ==
    (geo.fn = "set_as_region_or_subregion" /\ geo.result = <<>>) =>
        LET loc == geo.locs[1]
        IN  /\ get_most_likely_region(loc, geo.result, DOMAIN geo.before).value = None
            /\ geo.exc = ""
            /\ loc \in DOMAIN regions
            /\ regions[loc] = [subregions |-> EmptyDict, found_as |-> <<loc>>]
            /\ \A r \in (DOMAIN geo.before) \ {loc} :
                  r \in DOMAIN regions /\ regions[r] = geo.before[r]

-----------------------------------------------------------------------------
(* The scripts as batch runs: import, read the CSV, apply the functions to   *)
(* the rows, write the CSV                                                   *)

\* a missing value of a dataframe cell (pandas NaN)
NaN == "NaN"

Scripts == {"predict_host_infected_tissues", "predict_polar_tube_data",
            "predict_localities", "predict_spore_nucleus_count",
            "predict_microsp_and_host_names"}

\* a row of manually_format_multi_species_papers.csv: its text, its number of
\* papers, and its recorded traits (present or missing)
Row(t, n, rec) ==
    [title_abstract |-> t, num_papers |-> n,
     infection_site |-> IF rec THEN "gut" ELSE NaN,
     hosts_natural |-> IF rec THEN "Apis mellifera" ELSE NaN,
     hosts_experimental |-> IF rec THEN "Bombus terrestris" ELSE NaN,
     locality |-> IF rec THEN "France" ELSE NaN]

RowValues == {Row(t, n, rec) : t \in {NaN, "T1", "T2"}, n \in {1, 2}, rec \in BOOLEAN}

\* the input table has at least one row
CsvFiles == UNION {[1..n -> RowValues] : n \in 1..MaxRows}

\* DataFrame.fillna('') on the four columns of predict_host_infected_tissues.py:444-445
fillna(df) ==
    LET fill(v) == IF v = NaN THEN "" ELSE v
    IN  [k \in 1..Len(df) |->
            [df[k] EXCEPT !.infection_site = fill(@), !.hosts_natural = fill(@),
                          !.hosts_experimental = fill(@), !.title_abstract = fill(@)]]

\* microsp_data[microsp_data['num_papers'] < 2]
filter_num_papers(df) == SelectSeq(df, LAMBDA r : r.num_papers < 2)

\* get_spacy_preds(txt): the texts of the locality entities spaCy finds in txt
get_spacy_preds(txt) ==
    CASE txt = "T1" -> <<"France">>
      [] txt = "T2" -> <<"Atlantis", "Paris">>
      [] txt = "T3" -> <<"Paris", "France">>
      [] OTHER -> <<>>

\* geotext.extract(text)['countries']: the canonical names of the countries found
geotext_countries(text) ==
    CASE text = "France" -> <<"France">>
      [] text \in {"USA", "United States"} -> <<"United States">>
      [] OTHER -> <<>>

\* the second loop of get_regions_and_subregions: predict_localities.py:219-220
RECURSIVE AssignUndetermined(_, _, _)
AssignUndetermined(undetermined, k, st) ==
    IF k > Len(undetermined) \/ st.exc # ""
    THEN st
    ELSE AssignUndetermined(undetermined, k + 1,
                            SetAsRegionOrSubregion(undetermined[k], st))

\* the first loop of get_regions_and_subregions: predict_localities.py:200-215,
\* on acc = [regions, undetermined]
RECURSIVE SplitCountries(_, _, _)
SplitCountries(spacy_preds, k, acc) ==
    IF k > Len(spacy_preds)
    THEN acc
    ELSE LET pred == spacy_preds[k]
             countries == geotext_countries(pred)
         IN  SplitCountries(spacy_preds, k + 1,
                IF countries # <<>>
                THEN [acc EXCEPT !.regions =
                         Put(@, countries[1],
                             [subregions |-> EmptyDict, found_as |-> <<pred>>])]
                ELSE [acc EXCEPT !.undetermined = Append(@, pred)])

\* get_regions_and_subregions(spacy_preds): predict_localities.py:188-222, with
\* the module's cache: [regions, cache, requests, exc]
get_regions_and_subregions(spacy_preds, cache, requests) ==
    LET first == SplitCountries(spacy_preds, 1,
                                [regions |-> EmptyDict, undetermined |-> <<>>])
    IN  AssignUndetermined(first.undetermined, 1,
                           [cache |-> cache, requests |-> requests,
                            regions |-> first.regions, result |-> <<>>, exc |-> ""])

\* mutant of LoadGeonamesCache: the pickle is read back successfully
LoadGeonamesCacheWorks(file) ==
    IF file.exists
    THEN [exc |-> "", cache |-> file.content]
    ELSE [exc |-> "", cache |-> EmptyDict]

\* predict_localities.py:36-41.  The file is opened in text mode ('r'), so
\* pickle.load raises TypeError when the file exists.
LoadGeonamesCache(file) ==
    IF file.exists
    THEN [exc |-> "TypeError", cache |-> EmptyDict]
    ELSE [exc |-> "", cache |-> EmptyDict]

\* what the commented-out save of predict_localities.py:450-454 leaves on disk
SaveGeonamesCache(file, cache) == file

KeysOf(name, cache) == {<<name, k>> : k \in DOMAIN cache}

Raise(e) == pc' = "raised" /\ exc' = e

InitRun ==
    /\ CacheInit /\ ncalls = 0
    /\ module = "none"
    /\ GEONAMES_CACHE = EmptyDict
    /\ geonames_requests = [l \in Locations |-> 0]
    /\ regions = EmptyDict
    /\ geo = NoGeoCall
    /\ SPACY_CACHE = EmptyDict
    /\ script = "" /\ pc = "idle"
    /\ csv \in CsvFiles
    /\ pickle \in {[exists |-> FALSE, content |-> EmptyDict],
                   [exists |-> TRUE, content |-> [l \in {"Paris"} |-> geocoder_geonames(l)]]}
    /\ data = <<>> /\ phase = 0 /\ rowIdx = 0
    /\ received = {} /\ predicted = 0 /\ reads = 0 /\ written = 0 /\ exc = ""
    /\ stored = {} /\ storedEarlier = {} /\ runs = 0
    /\ FnIdle

\* `python <script>.py`: a new process, with nothing in memory
StartRun ==
    /\ pc \in {"idle", "done", "raised"}
    /\ runs < MaxRuns
    /\ runs' = runs + 1
    /\ script' \in Scripts
    /\ pc' = "import"
    /\ CACHED_TEXT_BIO' = EmptyDict /\ CACHED_TEXT_LARGE' = EmptyDict
    /\ GEONAMES_CACHE' = EmptyDict /\ SPACY_CACHE' = EmptyDict
    /\ geonames_requests' = [l \in Locations |-> 0]
    /\ data' = <<>> /\ phase' = 0 /\ rowIdx' = 0
    /\ received' = {} /\ predicted' = 0 /\ reads' = 0 /\ written' = 0 /\ exc' = ""
    /\ storedEarlier' = storedEarlier \cup stored
    /\ stored' = {}
    /\ UNCHANGED <<nlp_calls, call, ncalls, module, regions, geo, csv, pickle, fnVars>>

\* the module-level statements before the CSV is read
Import ==
    /\ pc = "import"
    /\ CASE script = "predict_host_infected_tissues" ->
              \* lines 27-47
              /\ CACHED_TEXT_BIO' = EmptyDict /\ CACHED_TEXT_LARGE' = EmptyDict
              /\ pc' = "read"
              /\ UNCHANGED <<GEONAMES_CACHE, exc>>
         [] script = "predict_localities" ->
              \* lines 28-43
              LET loaded == LoadGeonamesCache(pickle)
              IN  /\ GEONAMES_CACHE' = loaded.cache
                  /\ IF loaded.exc # "" THEN Raise(loaded.exc)
                                        ELSE pc' = "read" /\ exc' = exc
                  /\ UNCHANGED <<CACHED_TEXT_BIO, CACHED_TEXT_LARGE>>
         [] script = "predict_microsp_and_host_names" ->
              \* line 54-56 uses the name SPECIES, which is defined nowhere;
              \* SPACY_CACHE (line 62) is never bound
              /\ Raise("NameError")
              /\ UNCHANGED <<CACHED_TEXT_BIO, CACHED_TEXT_LARGE, GEONAMES_CACHE>>
         [] OTHER ->
              /\ pc' = "read"
              /\ UNCHANGED <<CACHED_TEXT_BIO, CACHED_TEXT_LARGE, GEONAMES_CACHE, exc>>
    /\ UNCHANGED <<nlp_calls, call, ncalls, module, geonames_requests, regions, geo,
                   SPACY_CACHE, script, csv, pickle, data, phase, rowIdx, received,
                   predicted, reads, written, stored, storedEarlier, runs, fnVars>>

\* pd.read_csv('../../data/manually_format_multi_species_papers.csv')
ReadCsv ==
    /\ pc = "read"
    /\ data' = csv
    /\ reads' = reads + 1
    /\ pc' = "prepare"
    /\ UNCHANGED <<cacheVars, ncalls, geoVars, SPACY_CACHE, script, csv, pickle, phase,
                   rowIdx, received, predicted, written, exc, stored, storedEarlier, runs, fnVars>>

\* what each script does to the dataframe before it maps over the rows
Prepare ==
    /\ pc = "prepare"
    /\ CASE script = "predict_host_infected_tissues" ->
              \* lines 444-445
              data' = fillna(data) /\ pc' = "rows" /\ exc' = exc
         [] script = "predict_spore_nucleus_count" ->
              \* lines 69-72: DataFrame.assign takes keyword arguments only; the
              \* positional lambda raises TypeError before any row is looked at
              data' = data /\ Raise("TypeError")
         [] OTHER ->
              \* predict_polar_tube_data.py:156, predict_localities.py:424
              data' = filter_num_papers(data) /\ pc' = "rows" /\ exc' = exc
    /\ phase' = 1 /\ rowIdx' = 1
    /\ UNCHANGED <<cacheVars, ncalls, geoVars, SPACY_CACHE, script, csv, pickle,
                   received, predicted, reads, written, stored, storedEarlier, runs, fnVars>>

\* one row of the current pass: the function the script maps over the rows
ProcessRow ==
    /\ pc = "rows"
    /\ rowIdx <= Len(data)
    /\ LET r == data[rowIdx]
       IN  CASE script = "predict_host_infected_tissues" /\ phase = 1 ->
                  \* lines 448-451
                  /\ received' = received \cup
                        {[fn |-> "clean_recorded_infection_sites",
                          args |-> <<r.infection_site, r.hosts_natural,
                                     r.hosts_experimental>>]}
                  /\ rowIdx' = rowIdx + 1
                  /\ UNCHANGED <<pc, exc, predicted, GEONAMES_CACHE, geonames_requests,
                                 stored>>
             [] script = "predict_host_infected_tissues" /\ phase = 2 ->
                  \* lines 455-458 call predict_and_normalize_infection_sites; the
                  \* module defines only predict_and_normalize_infection_sites_2
                  /\ Raise("NameError")
                  /\ UNCHANGED <<received, rowIdx, predicted, GEONAMES_CACHE,
                                 geonames_requests, stored>>
             [] script = "predict_polar_tube_data" ->
                  \* lines 159-163; nlp(txt) of a float raises
                  /\ received' = received \cup
                        {[fn |-> "predict_polar_tube_coils", args |-> <<r.title_abstract>>]}
                  /\ IF r.title_abstract = NaN
                     THEN Raise("ValueError") /\ UNCHANGED <<rowIdx, predicted>>
                     ELSE /\ rowIdx' = rowIdx + 1 /\ predicted' = predicted + 1
                          /\ UNCHANGED <<pc, exc>>
                  /\ UNCHANGED <<GEONAMES_CACHE, geonames_requests, stored>>
             [] script = "predict_localities" /\ phase = 1 ->
                  \* lines 427-432: predict_localities(txt)[1]
                  /\ received' = received \cup
                        {[fn |-> "predict_localities", args |-> <<r.title_abstract>>]}
                  /\ IF r.title_abstract = NaN
                     THEN /\ Raise("ValueError")
                          /\ UNCHANGED <<GEONAMES_CACHE, geonames_requests, stored>>
                     ELSE LET res == get_regions_and_subregions(
                                         get_spacy_preds(r.title_abstract),
                                         GEONAMES_CACHE, geonames_requests)
                          IN  /\ GEONAMES_CACHE' = res.cache
                              /\ geonames_requests' = res.requests
                              /\ stored' = stored \cup
                                    (KeysOf("GEONAMES_CACHE", res.cache)
                                        \ KeysOf("GEONAMES_CACHE", GEONAMES_CACHE))
                              \* the returned dict has no key 1
                              /\ Raise(IF res.exc # "" THEN res.exc ELSE "KeyError")
                  /\ UNCHANGED <<rowIdx, predicted>>
             [] OTHER ->
                  \* predict_localities.py:434-438, normalize_recorded_localities(locs)[1]
                  \* with na_action='ignore'
                  /\ IF r.locality = NaN
                     THEN /\ rowIdx' = rowIdx + 1
                          /\ UNCHANGED <<received, pc, exc>>
                     ELSE /\ received' = received \cup
                                {[fn |-> "normalize_recorded_localities",
                                  args |-> <<r.locality>>]}
                          /\ Raise("KeyError")
                          /\ UNCHANGED rowIdx
                  /\ UNCHANGED <<predicted, GEONAMES_CACHE, geonames_requests, stored>>
    /\ UNCHANGED <<CACHED_TEXT_BIO, CACHED_TEXT_LARGE, nlp_calls, call, ncalls, module,
                   regions, geo, SPACY_CACHE, script, csv, pickle, data, phase, reads,
                   written, storedEarlier, runs, fnVars>>

\* the current pass has seen every row
EndOfPass ==
    /\ pc = "rows"
    /\ rowIdx > Len(data)
    /\ IF script \in {"predict_host_infected_tissues", "predict_localities"} /\ phase = 1
       THEN phase' = 2 /\ rowIdx' = 1 /\ pc' = pc
       ELSE pc' = "write" /\ UNCHANGED <<phase, rowIdx>>
    /\ UNCHANGED <<cacheVars, ncalls, geoVars, SPACY_CACHE, script, csv, pickle, data,
                   received, predicted, reads, written, exc, stored, storedEarlier, runs, fnVars>>

\* DataFrame.to_csv of the results, and the end of the script
WriteCsv ==
    /\ pc = "write"
    /\ written' = written + 1
    /\ pickle' = IF script = "predict_localities"
                 THEN SaveGeonamesCache(pickle, GEONAMES_CACHE)
                 ELSE pickle
    /\ pc' = "done"
    /\ UNCHANGED <<cacheVars, ncalls, geoVars, SPACY_CACHE, script, csv, data, phase,
                   rowIdx, received, predicted, reads, exc, stored, storedEarlier, runs, fnVars>>

NextRun ==
    \/ StartRun
    \/ Import
    \/ ReadCsv
    \/ Prepare
    \/ ProcessRow
    \/ EndOfPass
    \/ WriteCsv

SpecRun == InitRun /\ [][NextRun]_vars

\* C1: no prediction or cleaning function of any script is ever applied to a
\* missing (NaN) value: the columns it reads were filled with '' before.
C1_NoMissingValueReceived ==
    \A r \in received : \A k \in 1..Len(r.args) : r.args[k] # NaN

Visible(name, cache) == KeysOf(name, cache) \subseteq stored

C4_State ==
    /\ Visible("CACHED_TEXT_BIO", CACHED_TEXT_BIO)
    /\ Visible("CACHED_TEXT_LARGE", CACHED_TEXT_LARGE)
    /\ Visible("GEONAMES_CACHE", GEONAMES_CACHE)
    /\ Visible("SPACY_CACHE", SPACY_CACHE)
    /\ pc \in {"import", "read"} =>
          /\ CACHED_TEXT_BIO = EmptyDict /\ CACHED_TEXT_LARGE = EmptyDict
          /\ GEONAMES_CACHE = EmptyDict /\ SPACY_CACHE = EmptyDict

WellFormedCsv ==
    \A k \in 1..Len(csv) :
        /\ csv[k].title_abstract # NaN
        /\ csv[k].infection_site # NaN
        /\ csv[k].hosts_natural # NaN
        /\ csv[k].hosts_experimental # NaN
        /\ csv[k].locality # NaN

\* C5: on a well-formed input CSV a run reads the CSV, computes the prediction
\* of every row and only then writes the output CSV, once; no run ends before
\* the write.
C5_ReadComputeWriteOnce ==
    (WellFormedCsv /\ ~pickle.exists /\ runs > 0) =>
        /\ pc # "raised"
        /\ written <= 1
        /\ reads <= 1
        /\ pc \in {"prepare", "rows", "write", "done"} => reads = 1
        /\ pc \in {"write", "done"} => predicted = Len(data)
        /\ written = 1 <=> pc = "done"

\* ---------------------------------------------------------------------------
\* predict_polar_tube_data.py: polar tube coil measures of a title + abstract
\* ---------------------------------------------------------------------------

\* the most tokens a text under test has, over all of its sentences
MaxTokens == 5

\* A Python str is the sequence of its whitespace-separated words, '' is <<>>.
\* Optional[str]: None is not a str, and in particular not ''.
PyNone == [none |-> TRUE, str |-> <<>>]
PyStr(s) == [none |-> FALSE, str |-> s]

\* token texts of the sentences: a number, a coil word, microns
TokenTexts == {"3", "coils", "μm"}

\* what one element of PT_COIL_DATA_PATTERN accepts
TokenIs(tok, class) ==
    CASE class = "NUM" -> tok = "3"                            \* {'POS': 'NUM'}
      [] class = "PT_RANGE" -> tok = "to"                      \* (to|or|-|and)
      [] class = "WORD" -> tok \in {"3", "to", "coils", "μm"}  \* [a-z0-9]+
      [] class = "PT_COIL" -> tok = "coils"
      [] class = "(" -> tok = "("
      [] class = ")" -> tok = ")"

\* re.search(MICRON_TERMS, s) on a token
IsMicronTerm(tok) == tok = "μm"

PT_COIL_DATA_PATTERN ==
    << [is |-> "(", op |-> "?"],
       [is |-> "NUM", op |-> "1"],
       [is |-> "PT_RANGE", op |-> "?"],
       [is |-> "NUM", op |-> "?"],
       [is |-> ")", op |-> "?"],
       [is |-> "(", op |-> "?"],
       [is |-> "WORD", op |-> "?"],
       [is |-> "WORD", op |-> "?"],
       [is |-> "WORD", op |-> "?"],
       [is |-> "WORD", op |-> "?"],
       [is |-> "WORD", op |-> "?"],
       [is |-> ")", op |-> "?"],
       [is |-> "PT_COIL", op |-> "1"] >>

\* the ends (exclusive) of the matches of the pattern from element k on, the
\* elements before k having matched up to one of the 0-based positions in at
RECURSIVE MatchEnds(_, _, _)
MatchEnds(tokens, at, k) ==
    IF k > Len(PT_COIL_DATA_PATTERN) THEN at
    ELSE LET skipped == IF PT_COIL_DATA_PATTERN[k].op = "?" THEN at ELSE {}
             taken == {pos + 1 : pos \in {q \in at : /\ q < Len(tokens)
                                                     /\ TokenIs(tokens[q + 1], PT_COIL_DATA_PATTERN[k].is)}}
         IN  MatchEnds(tokens, skipped \cup taken, k + 1)

\* the (start, end) pairs matcher(pt_sent) finds, relative to the sentence
MatcherMatches(tokens) ==
    UNION {{<<start, end>> : end \in MatchEnds(tokens, {start}, 1)} : start \in 0..(Len(tokens) - 1)}

\* The lists in which the matcher may return a set of matches: a match is
\* appended when the scan reaches its last token, so the ends ascend; the order
\* of the matches that end at one token follows the matcher's internal list of
\* partial matches and is left open.
RECURSIVE Orders(_)
Orders(S) ==
    IF S = {} THEN {<<>>}
    ELSE UNION {{<<m>> \o rest : rest \in Orders(S \ {m})} :
                    m \in {x \in S : \A y \in S : x[2] <= y[2]}}

\* matcher(pt_sent) for each sentence of a text, in some order of the matches
RECURSIVE MatcherRuns(_)
MatcherRuns(text) ==
    IF text = <<>> THEN {<<>>}
    ELSE LET found == MatcherMatches(Head(text).tokens)
             rest == MatcherRuns(Tail(text))
         IN  {<<o>> \o r : o \in Orders(found), r \in rest}

\* pt_sent[start : end].text
SpanText(tokens, start, end) == SubSeq(tokens, start + 1, end)

\* ' ||| '.join(strs)
RECURSIVE JoinBars(_)
JoinBars(strs) ==
    IF strs = <<>> THEN <<>>
    ELSE IF Len(strs) = 1 THEN strs[1]
    ELSE strs[1] \o <<"|||">> \o JoinBars(Tail(strs))

\* a match the loop of extract_pt_coils has set to None
Dropped == <<-1, -1>>

\* the loop of extract_pt_coils from index i (0-based) on
RECURSIVE DedupLoop(_, _, _, _)
DedupLoop(matches, i, curr_start, curr_end) ==
    IF i >= Len(matches) THEN matches
    ELSE LET m == matches[i + 1] IN
         IF m[2] > curr_end THEN DedupLoop(matches, i + 1, m[1], m[2])
         ELSE IF m[2] = curr_end /\ m[1] < curr_start
              THEN DedupLoop([matches EXCEPT ![i] = Dropped], i + 1, m[1], curr_end)
         ELSE IF m[1] > curr_start
              THEN DedupLoop([matches EXCEPT ![i + 1] = Dropped], i + 1, curr_start, curr_end)
         ELSE DedupLoop(matches, i + 1, curr_start, curr_end)

\* extract_pt_coils without the micron filter
extract_pt_coils_keep_microns(tokens, matches) ==
    IF matches = <<>> THEN <<>>
    ELSE LET kept == SelectSeq(DedupLoop(matches, 1, matches[1][1], matches[1][2]),
                               LAMBDA m : m # Dropped)
             texts == [j \in 1..Len(kept) |-> SpanText(tokens, kept[j][1], kept[j][2])]
         IN  JoinBars(texts)

\* extract_pt_coils(pt_sent), matches being what matcher(pt_sent) returned
extract_pt_coils(tokens, matches) ==
    IF matches = <<>> THEN <<>>
    ELSE LET kept == SelectSeq(DedupLoop(matches, 1, matches[1][1], matches[1][2]),
                               LAMBDA m : m # Dropped)
             texts == [j \in 1..Len(kept) |-> SpanText(tokens, kept[j][1], kept[j][2])]
             matches_text == SelectSeq(texts, LAMBDA s : ~\E j \in 1..Len(s) : IsMicronTerm(s[j]))
         IN  JoinBars(matches_text)

\* the indices of the sentences re.search(PT_REGEX, sent.text) keeps
RECURSIVE PtSentIndices(_, _)
PtSentIndices(text, i) ==
    IF i > Len(text) THEN <<>>
    ELSE (IF text[i].pt THEN <<i>> ELSE <<>>) \o PtSentIndices(text, i + 1)

\* predict_polar_tube_coils without the filter of the empty measures
predict_polar_tube_coils_keep_empty(text, runs_) ==
    LET pt_sents == PtSentIndices(text, 1)
        pt_coil_preds == [j \in 1..Len(pt_sents) |->
                             extract_pt_coils(text[pt_sents[j]].tokens, runs_[pt_sents[j]])]
    IN  IF pt_sents = <<>> THEN PyNone
        ELSE IF pt_coil_preds # <<>> THEN PyStr(JoinBars(pt_coil_preds))
        ELSE PyNone

\* predict_polar_tube_coils(txt): text is nlp(txt).sents, runs_ the matcher's
\* answer for each sentence
predict_polar_tube_coils(text, runs_) ==
    LET pt_sents == PtSentIndices(text, 1)
        all_preds == [j \in 1..Len(pt_sents) |->
                         extract_pt_coils(text[pt_sents[j]].tokens, runs_[pt_sents[j]])]
        pt_coil_preds == SelectSeq(all_preds, LAMBDA s : s # <<>>)
    IN  IF pt_sents = <<>> THEN PyNone
        ELSE IF pt_coil_preds # <<>> THEN PyStr(JoinBars(pt_coil_preds))
        ELSE PyNone

\* a sentence without a polar tube mention, and the sentences with one
OtherSentence == [pt |-> FALSE, tokens |-> <<"3", "coils">>]
PtSentences(k) == {[pt |-> TRUE, tokens |-> t] : t \in [1..k -> TokenTexts]}
SentencesOfLen(k) == PtSentences(k) \cup (IF k = Len(OtherSentence.tokens) THEN {OtherSentence} ELSE {})

\* the texts of at most n tokens, as the sentences nlp(txt).sents yields
RECURSIVE TextsUpTo(_)
TextsUpTo(n) ==
    {<<>>} \cup UNION {{<<s>> \o r : s \in SentencesOfLen(k), r \in TextsUpTo(n - k)} : k \in 1..n}

InitPolar ==
    /\ CacheInit /\ ncalls = 0 /\ GeoIdle /\ RunIdle
    /\ fnIn \in TextsUpTo(MaxTokens)
    /\ fnOut = <<>>
    /\ fnPc = "ready"
    /\ proc = <<>>

CallPredictPolarTubeCoils ==
    /\ fnPc = "ready"
    /\ \E runs_ \in MatcherRuns(fnIn) :
          fnOut' = [ret |-> predict_polar_tube_coils(fnIn, runs_), matches |-> runs_]
    /\ fnPc' = "done"
    /\ UNCHANGED <<cacheVars, ncalls, geoVars, runVars, fnIn, proc>>

NextPolar == CallPredictPolarTubeCoils

SpecPolar == InitPolar /\ [][NextPolar]_vars

\* the coil measure of each sentence with a polar tube mention, in sentence order
PtMeasures ==
    LET pt == PtSentIndices(fnIn, 1)
    IN  [j \in 1..Len(pt) |-> extract_pt_coils(fnIn[pt[j]].tokens, fnOut.matches[pt[j]])]

\* C8: predict_polar_tube_coils returns None when no sentence mentions a polar
\* tube or filament and when every such sentence has an empty coil measure;
\* otherwise it returns the non-empty measures joined by ' ||| ' in sentence
\* order. The result is never the empty string and holds no micron term.
C8_PolarTubeCoils ==
    fnPc = "done" =>
        LET ret == fnOut.ret
            nonEmpty == SelectSeq(PtMeasures, LAMBDA s : s # <<>>)
        IN  /\ ((\A i \in 1..Len(fnIn) : ~fnIn[i].pt) => ret = PyNone)
            /\ (nonEmpty = <<>> => ret = PyNone)
            /\ (nonEmpty # <<>> => ret = PyStr(JoinBars(nonEmpty)))
            /\ ret # PyStr(<<>>)
            /\ \A j \in 1..Len(ret.str) : ~IsMicronTerm(ret.str[j])

\* two sentences with different measures, the second a range of which the
\* matcher also finds the shorter part, joined in sentence order
C8_Witness ==
    /\ fnPc = "done"
    /\ Len(fnIn) = 2
    /\ fnIn[1] = [pt |-> TRUE, tokens |-> <<"3", "coils">>]
    /\ fnIn[2] = [pt |-> TRUE, tokens |-> <<"3", "3", "coils">>]
    /\ fnOut.ret = PyStr(<<"3", "coils", "|||", "3", "3", "coils">>)

\* ---------------------------------------------------------------------------
\* predict_host_infected_tissues.py: cleaning the recorded sites of infection.
\* A str is the sequence of its characters.
\* ---------------------------------------------------------------------------

\* the most main sites and subsites a recorded string under test holds
MaxItems == 3

\* s.strip(), the blank being the only whitespace of the strings considered
RECURSIVE LStrip(_, _)
LStrip(s, chars) == IF s # <<>> /\ Head(s) \in chars THEN LStrip(Tail(s), chars) ELSE s
RECURSIVE RStrip(_, _)
RStrip(s, chars) ==
    IF s # <<>> /\ s[Len(s)] \in chars THEN RStrip(SubSeq(s, 1, Len(s) - 1), chars) ELSE s
Strip(s) == RStrip(LStrip(s, {" "}), {" "})

\* s.strip(')')
StripParen(s) == RStrip(LStrip(s, {")"}), {")"})

\* term in s
Contains(term, s) == \E i \in 0..(Len(s) - Len(term)) : SubSeq(s, i + 1, i + Len(term)) = term

\* the first index at which sep occurs in s, 0 if it does not
Find(s, sep) ==
    IF Contains(sep, s)
    THEN CHOOSE i \in 1..Len(s) :
            /\ SubSeq(s, i, i + Len(sep) - 1) = sep
            /\ \A j \in 1..(i - 1) : SubSeq(s, j, j + Len(sep) - 1) # sep
    ELSE 0

\* s.split(sep)
RECURSIVE Split(_, _)
Split(s, sep) ==
    LET i == Find(s, sep)
    IN  IF i = 0 THEN <<s>>
        ELSE <<SubSeq(s, 1, i - 1)>> \o Split(SubSeq(s, i + Len(sep), Len(s)), sep)

\* sep.join(strs)
RECURSIVE Join(_, _)
Join(strs, sep) ==
    IF strs = <<>> THEN <<>>
    ELSE IF Len(strs) = 1 THEN strs[1]
    ELSE strs[1] \o sep \o Join(Tail(strs), sep)

\* s.replace(old, '')
RECURSIVE Remove(_, _)
Remove(s, old) ==
    IF Len(s) < Len(old) THEN s
    ELSE IF SubSeq(s, 1, Len(old)) = old THEN Remove(SubSeq(s, Len(old) + 1, Len(s)), old)
    ELSE <<Head(s)>> \o Remove(Tail(s), old)

\* the terms of IRRELEVANT_PARENTHESIZED_INFO that occur in the recorded
\* strings considered: 'main', 'larva', 'in ', '1', '2', 'wall'
IRRELEVANT_PARENTHESIZED_INFO ==
    << <<"m", "a", "i", "n">>, <<"l", "a", "r", "v", "a">>, <<"i", "n", " ">>, <<"1">>, <<"2">>, <<"w", "a", "l", "l">> >>

\* the second entry of EXCLUSIONS: 'mainly in duodenum'
EXCLUSIONS == << <<"m", "a", "i", "n", "l", "y", " ", "i", "n", " ", "d", "u", "o", "d", "e", "n", "u", "m">> >>

UpperCase == {"A", "B", "C", "D", "E", "F", "G", "H", "I", "J", "K", "L", "M",
              "N", "O", "P", "Q", "R", "S", "T", "U", "V", "W", "X", "Y", "Z"}

\* get_abbrev_species_name(host)
get_abbrev_species_name(host) ==
    IF \E i \in 1..(Len(host) - 2) : host[i] \in UpperCase /\ host[i + 1] = "." /\ host[i + 2] = " "
    THEN host
    ELSE LET parts == Split(host, <<" ">>)
             abbrevs == [j \in 1..(Len(parts) - 1) |-> <<parts[j][1], ".">>]
         IN  Join(abbrevs \o <<parts[Len(parts)]>>, <<" ">>)

\* get_host_names_and_abbrevs(hosts_natural, hosts_experimental)
get_host_names_and_abbrevs(hosts_natural, hosts_experimental) ==
    LET nat == Split(hosts_natural, <<";", " ">>)
        exper == Split(hosts_experimental, <<";", " ">>)
        names(hs) == [j \in 1..Len(hs) |-> Strip(Split(hs[j], <<"(">>)[1])]
        all_hosts == names(nat) \o names(exper)
        extended == all_hosts \o [j \in 1..Len(all_hosts) |-> get_abbrev_species_name(all_hosts[j])]
    IN  SelectSeq(extended, LAMBDA s : s # <<>>)

\* should_remove_subsite without the test of EXCLUSIONS
should_remove_subsite_no_exclusions(subsite, all_host_names) ==
    LET terms == IRRELEVANT_PARENTHESIZED_INFO \o all_host_names
    IN  \E j \in 1..Len(terms) : Contains(terms[j], subsite)

\* should_remove_subsite(subsite, all_host_names)
should_remove_subsite(subsite, all_host_names) ==
    LET terms == IRRELEVANT_PARENTHESIZED_INFO \o all_host_names
    IN  /\ \E j \in 1..Len(terms) : Contains(terms[j], subsite)
        /\ ~\E j \in 1..Len(EXCLUSIONS) : Contains(EXCLUSIONS[j], subsite)

\* re.search("(?<=\().+\)?", site): the text from the first '(' that is followed
\* by a character up to the end of the site, <<>> for no match (None)
SearchParenthesized(site) ==
    LET i == Find(site, <<"(">>)
    IN  IF i = 0 \/ i = Len(site) THEN <<>> ELSE SubSeq(site, i + 1, Len(site))

\* the body of the loop of clean_recorded_infection_sites for one site: the
\* items it adds to sites_formatted
SiteItems(site, all_host_names) ==
    LET split == IF Contains(<<"(">>, site) THEN Split(SearchParenthesized(site), <<",">>) ELSE <<>>
        subsites == [j \in 1..Len(split) |-> StripParen(Strip(split[j]))]
        kept == SelectSeq(subsites, LAMBDA s : ~should_remove_subsite(s, all_host_names))
    IN  <<Strip(Split(site, <<"(">>)[1])>> \o kept

\* sum(lists, [])
RECURSIVE Flatten(_)
Flatten(lists) == IF lists = <<>> THEN <<>> ELSE Head(lists) \o Flatten(Tail(lists))

\* clean_recorded_infection_sites(sites, hosts_natural, hosts_experimental):
\* .group(0) of the None that re.search returns raises AttributeError
clean_recorded_infection_sites(sites_, hosts_natural, hosts_experimental) ==
    LET split == Split(Remove(sites_, <<"(", "1", ";", "2", ")">>), <<";">>)
        sites == [j \in 1..Len(split) |-> Strip(split[j])]
        all_host_names == get_host_names_and_abbrevs(hosts_natural, hosts_experimental)
    IN  IF \E j \in 1..Len(sites) :
              Contains(<<"(">>, sites[j]) /\ SearchParenthesized(sites[j]) = <<>>
        THEN [raised |-> "AttributeError", str |-> <<>>]
        ELSE [raised |-> "none",
              str |-> Join(Flatten([j \in 1..Len(sites) |-> SiteItems(sites[j], all_host_names)]),
                           <<";", " ">>)]

\* the main sites and the subsites of the recorded strings considered
MainSites == { <<"g", "u", "t">>, <<"l", "a", "r", "v", "a">> }
Subsites == { <<>>, <<"l", "u", "m", "e", "n">>, <<"w", "a", "l", "l">>, <<"m", "a", "i", "n", "l", "y", " ", "i", "n", " ", "d", "u", "o", "d", "e", "n", "u", "m">>, <<"A", ".", " ", "c", "d">> }

\* the recorded entries of n items: a main site alone, a main site with the
\* '(1;2)' of the data set, a main site with parenthesized subsites, the
\* closing parenthesis present or missing
EntriesOf(n) ==
    IF n = 1
    THEN {[main |-> m, paren |-> p, subs |-> <<>>] : m \in MainSites, p \in {"none", "(1;2)"}}
    ELSE {[main |-> m, paren |-> p, subs |-> s] :
              m \in MainSites, p \in {"closed", "open"}, s \in [1..(n - 1) -> Subsites]}

\* the lists of entries of at most n items in all
RECURSIVE RecordedUpTo(_)
RecordedUpTo(n) ==
    {<<>>} \cup UNION {{<<e>> \o r : e \in EntriesOf(k), r \in RecordedUpTo(n - k)} : k \in 1..n}

\* the text of an entry as it is recorded in the 'Site of Infection' column
EntryText(e) ==
    CASE e.paren = "none" -> e.main
      [] e.paren = "(1;2)" -> e.main \o <<" ">> \o <<"(", "1", ";", "2", ")">>
      [] e.paren = "closed" -> e.main \o <<" ", "(">> \o Join(e.subs, <<",", " ">>) \o <<")">>
      [] e.paren = "open" -> e.main \o <<" ", "(">> \o Join(e.subs, <<",", " ">>)

RecordedText(entries) == Join([j \in 1..Len(entries) |-> EntryText(entries[j])], <<";", " ">>)

\* the recorded hosts considered: none, 'Ab cd (x)', and 'A. cd'
HostsNatural == { <<>>, <<"A", "b", " ", "c", "d", " ", "(", "x", ")">> }
HostsExperimental == { <<>>, <<"A", ".", " ", "c", "d">> }

InitClean ==
    /\ CacheInit /\ ncalls = 0 /\ GeoIdle /\ RunIdle
    /\ \E entries \in RecordedUpTo(MaxItems), hn \in HostsNatural, he \in HostsExperimental :
          fnIn = [entries |-> entries, sites |-> RecordedText(entries),
                  hosts_natural |-> hn, hosts_experimental |-> he]
    /\ fnOut = <<>>
    /\ fnPc = "ready"
    /\ proc = <<>>

CallCleanRecordedInfectionSites ==
    /\ fnPc = "ready"
    /\ fnOut' = clean_recorded_infection_sites(fnIn.sites, fnIn.hosts_natural, fnIn.hosts_experimental)
    /\ fnPc' = "done"
    /\ UNCHANGED <<cacheVars, ncalls, geoVars, runVars, fnIn, proc>>

NextClean == CallCleanRecordedInfectionSites

SpecClean == InitClean /\ [][NextClean]_vars

\* the host names of the call, full and abbreviated
HostNames ==
    LET names == get_host_names_and_abbrevs(fnIn.hosts_natural, fnIn.hosts_experimental)
    IN  {names[j] : j \in 1..Len(names)}

\* the subsite contains an irrelevant term or a host name
NamesHostOrIrrelevant(subsite) ==
    \/ \E j \in 1..Len(IRRELEVANT_PARENTHESIZED_INFO) : Contains(IRRELEVANT_PARENTHESIZED_INFO[j], subsite)
    \/ \E h \in HostNames : Contains(h, subsite)

\* the subsite contains a term of EXCLUSIONS
NamesExclusion(subsite) == \E j \in 1..Len(EXCLUSIONS) : Contains(EXCLUSIONS[j], subsite)

\* the main site of each entry followed by those of its subsites that are in keep
Listed(entries, keep) ==
    Flatten([j \in 1..Len(entries) |->
                <<entries[j].main>> \o SelectSeq(entries[j].subs, LAMBDA s : s \in keep)])

\* the list of the main sites alone for an input without entries is ['']
ListedOrEmpty(entries, keep) == IF entries = <<>> THEN << <<>> >> ELSE Listed(entries, keep)

\* an entry that ends with its first '('
EndsWithParenthesis(e) == e.paren = "open" /\ e.subs = << <<>> >>

\* the items of the returned string
ReturnedItems == LET items == Split(fnOut.str, <<";", " ">>) IN {items[j] : j \in 1..Len(items)}

MaxWords == 4

nucleus_terms ==
    {"nucleus", "nuclei", "unikaryotic", "unikariotic", "unicaryotic",
     "unicariotic", "unikaryon", "unikarion", "unicaryon", "unicarion",
     "monokaryotic", "monokariotic", "monocaryotic", "monocariotic",
     "monokaryon", "monokarion", "monocaryon", "monocarion",
     "diplokaryotic", "diplokariotic", "diplocaryotic", "diplocariotic",
     "diplokaryon", "diplokarion", "diplocaryon", "diplocarion",
     "uninucleate", "mononucleate", "binucleate", "uninuclear", "binuclear"}

\* the keys of nucleus_count whose value is 2; the value of the others is 1
TwoNuclei ==
    {"nuclei", "diplokaryotic", "diplokariotic", "diplocaryotic", "diplocariotic",
     "diplokaryon", "diplokarion", "diplocaryon", "diplocarion", "binucleate", "binuclear"}

nucleus_count == [term \in nucleus_terms |-> IF term \in TwoNuclei THEN 2 ELSE 1]

immature_spore_terms == {"sporoblast", "sporont", "meront", "schizont"}

\* the tokens of the texts considered, with the lemma the pipeline gives them
Words ==
    {[text |-> "nucleus", lemma |-> "nucleus"],
     [text |-> "Binucleate", lemma |-> "binucleate"],
     [text |-> "sporonts", lemma |-> "sporont"],
     [text |-> "meiospores", lemma |-> "meiospore"],
     [text |-> "spores", lemma |-> "spore"]}

\* str.lower() on the token texts
Lower(text) == IF text = "Binucleate" THEN "binucleate" ELSE text

\* re.search('(?<!(xo|do))[Ss]pore', text) on the token texts
IsSporeText(text) == text \in {"meiospores", "spores"}

\* str(n) for a nucleus count
Str(n) == IF n = 1 THEN "1" ELSE "2"

\* the tokens of the Doc: those of its sentences in order
RECURSIVE DocOf(_)
DocOf(sents) == IF sents = <<>> THEN <<>> ELSE Head(sents) \o DocOf(Tail(sents))

\* sent.start of the k-th sentence, as a 0-based index into the Doc
RECURSIVE SentStart(_, _)
SentStart(sents, k) == IF k = 1 THEN 0 ELSE SentStart(sents, k - 1) + Len(sents[k - 1])

\* the 0-based positions from i on, below end, whose token satisfies hit
RECURSIVE Hits(_, _, _)
Hits(hit, i, end) ==
    IF i >= end THEN <<>>
    ELSE (IF hit[i + 1] THEN <<i>> ELSE <<>>) \o Hits(hit, i + 1, end)

\* nucleus_matcher(sent) were it to count the tokens from the start of the sentence
nucleus_matcher_from_sentence(sents, k) ==
    LET sent == sents[k]
        hit == [j \in 1..Len(sent) |-> Lower(sent[j].text) \in nucleus_terms]
        at == Hits(hit, 0, Len(sent))
    IN  [j \in 1..Len(at) |-> <<at[j], at[j] + 1>>]

\* nucleus_matcher(sent): a PhraseMatcher on the attribute LOWER; on a Span it
\* scans the Doc from sent.start to sent.end and returns indices into the Doc
nucleus_matcher(sents, k) ==
    LET doc == DocOf(sents)
        start == SentStart(sents, k)
        hit == [j \in 1..Len(doc) |-> Lower(doc[j].text) \in nucleus_terms]
        at == Hits(hit, start, start + Len(sents[k]))
    IN  [j \in 1..Len(at) |-> <<at[j], at[j] + 1>>]

\* immature_spore_matcher(sent): a PhraseMatcher on the attribute LEMMA
immature_spore_matcher(sents, k) ==
    LET doc == DocOf(sents)
        start == SentStart(sents, k)
        hit == [j \in 1..Len(doc) |-> doc[j].lemma \in immature_spore_terms]
        at == Hits(hit, start, start + Len(sents[k]))
    IN  [j \in 1..Len(at) |-> <<at[j], at[j] + 1>>]

\* spore_matcher(sent): a Matcher; on a Span it returns indices into the Span
spore_matcher(sents, k) ==
    LET sent == sents[k]
        hit == [j \in 1..Len(sent) |-> IsSporeText(sent[j].text)]
        at == Hits(hit, 0, Len(sent))
    IN  [j \in 1..Len(at) |-> <<at[j], at[j] + 1>>]

\* the indices of nucleus_sents
RECURSIVE NucleusSents(_, _)
NucleusSents(sents, k) ==
    IF k > Len(sents) THEN <<>>
    ELSE (IF nucleus_matcher(sents, k) # <<>> /\ immature_spore_matcher(sents, k) = <<>>
          THEN <<k>> ELSE <<>>) \o NucleusSents(sents, k + 1)

\* the body of the loop of predict_spore_nucleus for the k-th sentence: the
\* (spore_name, nucleus_term) it finds
SporeNucleusInfo(sents, k) ==
    LET found == spore_matcher(sents, k)
        lemma == sents[k][found[1][1] + 1].lemma
        spore_name == IF found = <<>> THEN "normal spore"
                      ELSE IF lemma = "spore" THEN "normal spore" ELSE lemma
        nucleus_term == Lower(DocOf(sents)[nucleus_matcher(sents, k)[1][1] + 1].text)
    IN  [name |-> spore_name, term |-> nucleus_term]

\* '; '.join of the items, an item being f"{num} ({name})"
RECURSIVE JoinItems(_)
JoinItems(infos) ==
    IF infos = <<>> THEN <<>>
    ELSE <<infos[1].num, " (", infos[1].name, ")">>
         \o (IF Len(infos) = 1 THEN <<>> ELSE <<"; ">> \o JoinItems(Tail(infos)))

\* predict_spore_nucleus(txt), sents being the sentences of nlp(txt);
\* nucleus_count[nucleus_term] raises KeyError for a term that is not a key
predict_spore_nucleus(sents) ==
    LET nucleus_sents == NucleusSents(sents, 1)
        infos == [j \in 1..Len(nucleus_sents) |-> SporeNucleusInfo(sents, nucleus_sents[j])]
    IN  IF \E j \in 1..Len(infos) : infos[j].term \notin DOMAIN nucleus_count
        THEN [raised |-> "KeyError", str |-> <<>>]
        ELSE [raised |-> "none",
              str |-> JoinItems([j \in 1..Len(infos) |->
                                    [name |-> infos[j].name,
                                     num |-> Str(nucleus_count[infos[j].term])]])]

\* the texts of at most n tokens, as the sentences nlp(txt).sents yields
RECURSIVE DocsUpTo(_)
DocsUpTo(n) ==
    {<<>>} \cup UNION {{<<s>> \o r : s \in [1..k -> Words], r \in DocsUpTo(n - k)} : k \in 1..n}

InitNucleus ==
    /\ CacheInit /\ ncalls = 0 /\ GeoIdle /\ RunIdle
    /\ fnIn \in DocsUpTo(MaxWords)
    /\ fnOut = <<>>
    /\ fnPc = "ready"
    /\ proc = <<>>

CallPredictSporeNucleus ==
    /\ fnPc = "ready"
    /\ fnOut' = predict_spore_nucleus(fnIn)
    /\ fnPc' = "done"
    /\ UNCHANGED <<cacheVars, ncalls, geoVars, runVars, fnIn, proc>>

NextNucleus == CallPredictSporeNucleus

SpecNucleus == InitNucleus /\ [][NextNucleus]_vars

\* the sentence has a nucleus term and no immature-spore term
HasNucleusData(sent) ==
    /\ \E j \in 1..Len(sent) : Lower(sent[j].text) \in nucleus_terms
    /\ \A j \in 1..Len(sent) : sent[j].lemma \notin immature_spore_terms

\* the item of a sentence with nucleus data: the count of its first nucleus
\* term and the name of its first spore token
ItemOf(sent) ==
    LET first == CHOOSE j \in 1..Len(sent) :
                    /\ Lower(sent[j].text) \in nucleus_terms
                    /\ \A i \in 1..(j - 1) : Lower(sent[i].text) \notin nucleus_terms
        spores == {j \in 1..Len(sent) : IsSporeText(sent[j].text)}
        spore == CHOOSE j \in spores : \A i \in spores : j <= i
    IN  [num |-> IF Lower(sent[first].text) \in TwoNuclei THEN "2" ELSE "1",
         name |-> IF spores = {} \/ sent[spore].lemma = "spore"
                  THEN "normal spore" ELSE sent[spore].lemma]

\* C10: predict_spore_nucleus returns, joined by '; ' in sentence order, one
\* item '<n> (<spore name>)' for each sentence with a nucleus term and no
\* immature-spore term: n is the count of the first nucleus term of that
\* sentence, the name the lemma of its first spore token, 'normal spore' when
\* there is none or the lemma is 'spore'; so for every sentence of the text.
C10_SporeNucleusPerSentence ==
    fnPc = "done" =>
        LET with == SelectSeq(fnIn, HasNucleusData)
        IN  /\ fnOut.raised = "none"
            /\ fnOut.str = JoinItems([j \in 1..Len(with) |-> ItemOf(with[j])])

\* a second sentence whose nucleus term and spore token differ from those at
\* the same positions of the first sentence
C10_Witness ==
    /\ fnPc = "done"
    /\ fnIn = << <<[text |-> "spores", lemma |-> "spore"], [text |-> "nucleus", lemma |-> "nucleus"]>>,
                 <<[text |-> "Binucleate", lemma |-> "binucleate"],
                   [text |-> "meiospores", lemma |-> "meiospore"]>> >>
    /\ fnOut.str = <<"1", " (", "normal spore", ")", "; ", "2", " (", "meiospore", ")">>

\* ---------------------------------------------------------------------------
\* The rows through the caches: predict_and_normalize_infection_sites_2 and
\* get_regions_and_subregions applied to row after row, in two processes side
\* by side, each with its own module-level caches and its own string hash seed
\* ---------------------------------------------------------------------------

\* PYTHONHASHSEED is random for each process: the iteration order of a set of
\* str is fixed within a process and differs between processes
HashSeeds == {"ascending", "descending"}

\* the tokens of the texts considered: two abstracts (T1, T2) and two cleaned
\* strings of recorded infection sites (S1, S2)
TokensOf(text) ==
    CASE text = "T1" -> <<"spores", "infect", "gut">>
      [] text = "T2" -> <<"found", "in", "fat", "body", "and", "muscle">>
      [] text = "S1" -> <<"gut">>
      [] text = "S2" -> <<"Gut", ";", "muscle">>
      [] OTHER -> <<>>

\* str.lower() of a text given by its tokens
LowerText(s) == [j \in 1..Len(s) |-> IF s[j] = "Gut" THEN "gut" ELSE s[j]]

INFECTION_SITE_ENTITIES ==
    {"ORGAN", "TISSUE", "ORGANISM_SUBDIVISION", "MULTI_TISSUE_STRUCTURE", "CELL",
     "CELLULAR_COMPONENT"}

\* the entries of MICROSPORIDIA_PARTS that the texts considered can hold; the
\* list lacks two commas, which makes 'sporemeront' of 'spore' and 'meront'
MICROSPORIDIA_PARTS ==
    {<<"polar", "tube">>, <<"sporoblast">>, <<"sporemeront">>, <<"endospore">>, <<"spores">>}

\* a Span of a Doc
SpanOf(doc, start, end, label, kb_ents) ==
    [doc |-> doc, start |-> start, end |-> end, label |-> label, kb_ents |-> kb_ents]

\* span.text
TextOfSpan(span) == SubSeq(TokensOf(span.doc.text), span.start + 1, span.end)

\* doc.ents: what each pipeline tags; only en_core_sci_lg links to UMLS, a span
\* of the other pipeline has the default _.kb_ents, []
EntsOf(doc) ==
    IF doc.model = "en_ner_bionlp13cg_md"
    THEN CASE doc.text = "T1" -> <<SpanOf(doc, 0, 1, "CELL", <<>>), SpanOf(doc, 2, 3, "ORGAN", <<>>)>>
           [] doc.text = "T2" -> <<SpanOf(doc, 2, 4, "TISSUE", <<>>), SpanOf(doc, 5, 6, "TISSUE", <<>>)>>
           [] doc.text = "S1" -> <<SpanOf(doc, 0, 1, "ORGAN", <<>>)>>
           [] doc.text = "S2" -> <<SpanOf(doc, 0, 1, "ORGAN", <<>>), SpanOf(doc, 2, 3, "TISSUE", <<>>)>>
           [] OTHER -> <<>>
    ELSE CASE doc.text = "T1" -> <<SpanOf(doc, 0, 1, "ENTITY", <<>>),
                                   SpanOf(doc, 2, 3, "ENTITY", <<"C0699819">>)>>
           [] doc.text = "T2" -> <<SpanOf(doc, 2, 4, "ENTITY", <<"C0015665">>),
                                   SpanOf(doc, 5, 6, "ENTITY", <<"C0026845">>)>>
           [] OTHER -> <<>>

\* doc.sents: each of the texts is one sentence
SentsOf(doc) ==
    IF TokensOf(doc.text) = <<>> THEN <<>>
    ELSE <<SpanOf(doc, 0, Len(TokensOf(doc.text)), "", <<>>)>>

\* sent.ents
EntsIn(sent) ==
    SelectSeq(EntsOf(sent.doc), LAMBDA e : sent.start <= e.start /\ e.end <= sent.end)

\* matcher(sent) of the pattern infection_site: a verb whose lemma is in
\* INFECTION_LEMMAS ('infect', and 'found' of 'find')
HasInfectionVerb(sent) ==
    \E j \in 1..Len(TextOfSpan(sent)) : TextOfSpan(sent)[j] \in {"infect", "found"}

\* linker_large.kb.cui_to_entity[cui][1]
CanonicalNameOf(cui) ==
    CASE cui = "C0699819" -> <<"Intestines">>
      [] cui = "C0015665" -> <<"Fat", "Body">>
      [] OTHER -> <<"Muscle">>

\* get_cached_text(txt, spacy_large) on the caches of the process st: the Doc
\* and the process after the call
CachedText(st, txt, spacy_large) ==
    IF spacy_large
    THEN IF txt \notin DOMAIN st.CACHED_TEXT_LARGE
         THEN [doc |-> nlp_large(txt),
               st |-> [st EXCEPT !.CACHED_TEXT_LARGE = Put(@, txt, nlp_large(txt))]]
         ELSE [doc |-> st.CACHED_TEXT_LARGE[txt], st |-> st]
    ELSE IF txt \notin DOMAIN st.CACHED_TEXT_BIO
         THEN [doc |-> nlp_bio(txt),
               st |-> [st EXCEPT !.CACHED_TEXT_BIO = Put(@, txt, nlp_bio(txt))]]
         ELSE [doc |-> st.CACHED_TEXT_BIO[txt], st |-> st]

\* is_overlapping_spans(s1, s2): range(start, end + 1) of the two intersect
is_overlapping_spans(s1, s2) == (s1.start..s1.end) \cap (s2.start..s2.end) # {}

\* get_overlapping_entity(site, ents)
get_overlapping_entity(site, ents) ==
    LET over == SelectSeq(ents, LAMBDA ent : is_overlapping_spans(ent, site))
    IN  IF over # <<>> THEN over[1] ELSE site

\* the loop of get_site_spans from token i on, curr_posn being the start of
\* the site that is open
RECURSIVE SiteSpansFrom(_, _, _)
SiteSpansFrom(doc, i, curr_posn) ==
    LET tokens == TokensOf(doc.text)
    IN  IF i >= Len(tokens) THEN <<SpanOf(doc, curr_posn, Len(tokens), "", <<>>)>>
        ELSE IF tokens[i + 1] = ";"
             THEN <<SpanOf(doc, curr_posn, i, "", <<>>)>> \o SiteSpansFrom(doc, i + 1, i + 1)
             ELSE SiteSpansFrom(doc, i + 1, curr_posn)

\* get_site_spans(doc)
get_site_spans(doc) == SiteSpansFrom(doc, 0, 0)

\* get_intersecting_umls_names(recorded_names, pred_names)
get_intersecting_umls_names(recorded_names, pred_names) ==
    SelectSeq(recorded_names, LAMBDA s : \E j \in 1..Len(pred_names) : pred_names[j] = s)

\* is_unlabelled_by_bionlp13cg(ent, bio_infection_sents): tmp_matcher finds the
\* tokens whose lower-cased text is that of ent
is_unlabelled_by_bionlp13cg(ent, bio_infection_sents) ==
    ~\E k \in 1..Len(bio_infection_sents) :
        LET sent == bio_infection_sents[k]
        IN  \E m \in sent.start..(sent.end - 1) :
               /\ LowerText(<<TokensOf(sent.doc.text)[m + 1]>>) = LowerText(TextOfSpan(ent))
               /\ \E j \in 1..Len(EntsIn(sent)) :
                     is_overlapping_spans(SpanOf(sent.doc, m, m + 1, "", <<>>), EntsIn(sent)[j])

\* a dict whose keys are Spans, in insertion order: d[key] = val
DictSet(d, key, val) ==
    IF \E j \in 1..Len(d) : d[j].key = key
    THEN [j \in 1..Len(d) |-> IF d[j].key = key THEN [key |-> key, val |-> val] ELSE d[j]]
    ELSE Append(d, [key |-> key, val |-> val])

\* the rank of a name under the hash of a process
NameRank(name) ==
    CASE name = <<"gut">> -> 1
      [] name = <<"Gut">> -> 2
      [] name = <<"muscle">> -> 3
      [] name = <<"fat", "body">> -> 4
      [] OTHER -> 5

\* list(set(names)) in a process with the given hash seed
RECURSIVE ListOfSet(_, _)
ListOfSet(names, seed) ==
    IF names = {} THEN <<>>
    ELSE LET first == CHOOSE n \in names :
                         \A o \in names : IF seed = "ascending" THEN NameRank(n) <= NameRank(o)
                                                                ELSE NameRank(n) >= NameRank(o)
         IN  <<first>> \o ListOfSet(names \ {first}, seed)

\* the inner loop of resolve_normalized_names for the site at key `site`, from
\* the j-th predicted site on; d = [site_names, pred_sites]
RECURSIVE ResolveSite(_, _, _)
ResolveSite(site, j, d) ==
    IF j > Len(d.pred_sites) THEN d
    ELSE LET pred == d.pred_sites[j]
             rec == (CHOOSE e \in {d.site_names[k] : k \in 1..Len(d.site_names)} : e.key = site).val
             inter == get_intersecting_umls_names(rec.umls_names, pred.val.umls_names)
         IN  IF Contains(LowerText(TextOfSpan(site)), LowerText(TextOfSpan(pred.key)))
             THEN ResolveSite(site, j + 1,
                     [site_names |-> DictSet(d.site_names, site,
                                             [rec EXCEPT !.needs_normalization = FALSE]),
                      pred_sites |-> [d.pred_sites EXCEPT ![j].val =
                                         [@ EXCEPT !.needs_normalization = FALSE,
                                                   !.canonical_name = TextOfSpan(site)]]])
             ELSE IF inter # <<>>
             THEN ResolveSite(site, j + 1,
                     [site_names |-> DictSet(d.site_names, site,
                                             [rec EXCEPT !.needs_normalization = FALSE,
                                                         !.canonical_name = CanonicalNameOf(inter[1])]),
                      pred_sites |-> [d.pred_sites EXCEPT ![j].val =
                                         [@ EXCEPT !.needs_normalization = FALSE,
                                                   !.canonical_name = CanonicalNameOf(inter[1])]]])
             ELSE ResolveSite(site, j + 1, d)

\* the outer loop of resolve_normalized_names from the i-th recorded site on
RECURSIVE ResolveSites(_, _, _, _)
ResolveSites(sites, ents_of_interest, i, d) ==
    IF i > Len(sites) THEN d
    ELSE LET site == get_overlapping_entity(sites[i], ents_of_interest)
             named == [d EXCEPT !.site_names =
                          DictSet(@, site, [umls_names |-> site.kb_ents,
                                            needs_normalization |-> TRUE,
                                            canonical_name |-> TextOfSpan(site)])]
         IN  ResolveSites(sites, ents_of_interest, i + 1, ResolveSite(site, 1, named))

\* resolve_normalized_names(pred_sites, sites_formatted) in the process st:
\* the two strings, the names being separated by ';', and the process after it
resolve_normalized_names(pred_sites, sites_formatted, st) ==
    LET cached == CachedText(st, sites_formatted, FALSE)
        ents_of_interest == SelectSeq(EntsOf(cached.doc), LAMBDA ent : ent.label \in INFECTION_SITE_ENTITIES)
        d == ResolveSites(get_site_spans(cached.doc), ents_of_interest, 1,
                          [site_names |-> <<>>, pred_sites |-> pred_sites])
        names(dict) == {dict[k].val.canonical_name : k \in 1..Len(dict)}
    IN  [out |-> <<Join(ListOfSet(names(d.site_names), st.seed), <<";">>),
                   Join(ListOfSet(names(d.pred_sites), st.seed), <<";">>)>>,
         st |-> cached.st]

\* the entities of the sentences, in order
RECURSIVE EntsOfSents(_)
EntsOfSents(sents) == IF sents = <<>> THEN <<>> ELSE EntsIn(Head(sents)) \o EntsOfSents(Tail(sents))

\* pred_sites[ent] = {...} for each of the entities, in order
RECURSIVE PredSitesOf(_, _)
PredSitesOf(ents, d) ==
    IF ents = <<>> THEN d
    ELSE PredSitesOf(Tail(ents),
                     DictSet(d, Head(ents), [umls_names |-> Head(ents).kb_ents,
                                             needs_normalization |-> TRUE,
                                             canonical_name |-> TextOfSpan(Head(ents))]))

\* predict_and_normalize_infection_sites_2(txt, sites_formatted) in the process st
predict_and_normalize_infection_sites_2(txt, sites_formatted, st) ==
    LET bio == CachedText(st, txt, FALSE)
        large == CachedText(bio.st, txt, TRUE)
        bio_sents == SelectSeq(SentsOf(bio.doc), HasInfectionVerb)
        large_sents == SelectSeq(SentsOf(large.doc), HasInfectionVerb)
        bio_entities == SelectSeq(EntsOfSents(bio_sents),
                            LAMBDA ent : /\ ent.label \in INFECTION_SITE_ENTITIES
                                         /\ LowerText(TextOfSpan(ent)) \notin MICROSPORIDIA_PARTS)
        large_entities == SelectSeq(EntsOfSents(large_sents),
                            LAMBDA ent : /\ Len(ent.kb_ents) > 0
                                         /\ \/ \E j \in 1..Len(bio_entities) :
                                                  is_overlapping_spans(ent, bio_entities[j])
                                            \/ is_unlabelled_by_bionlp13cg(ent, bio_sents))
    IN  resolve_normalized_names(PredSitesOf(large_entities, <<>>), sites_formatted, large.st)

\* the rows the two functions are applied to
TissueRows == {[title_abstract |-> t, infection_site_formatted |-> s] :
                   t \in {"T1", "T2"}, s \in {"S1", "S2"}}
LocalityRows == {[title_abstract |-> t] : t \in {"T0", "T1", "T2", "T3"}}

\* a Python process that has imported the module: empty caches, and a hash seed
Process(seed) ==
    [CACHED_TEXT_BIO |-> EmptyDict, CACHED_TEXT_LARGE |-> EmptyDict,
     GEONAMES_CACHE |-> EmptyDict, requests |-> [l \in Locations |-> 0],
     seed |-> seed, n |-> 0, row |-> <<>>, out |-> <<>>, exc |-> ""]

InitRows ==
    /\ CacheInit /\ ncalls = 0 /\ GeoIdle /\ RunIdle
    /\ fnIn \in {"predict_and_normalize_infection_sites_2", "get_regions_and_subregions"}
    /\ fnOut = <<>> /\ fnPc = "rows"
    /\ proc \in [1..2 -> {Process(seed) : seed \in HashSeeds}]

\* the comprehension of predict_host_infected_tissues.py:455-458 reaches a row
\* in process p
TissueRow(p) ==
    /\ fnIn = "predict_and_normalize_infection_sites_2"
    /\ proc[p].n < MaxRows
    /\ \E r \in TissueRows :
          LET res == predict_and_normalize_infection_sites_2(
                         r.title_abstract, r.infection_site_formatted, proc[p])
          IN  proc' = [proc EXCEPT ![p] = [res.st EXCEPT !.n = @ + 1, !.row = r, !.out = res.out]]
    /\ UNCHANGED <<cacheVars, ncalls, geoVars, runVars, fnIn, fnOut, fnPc>>

\* the map of predict_localities.py:427-432 reaches a row in process p; an
\* exception ends the process
LocalityRow(p) ==
    /\ fnIn = "get_regions_and_subregions"
    /\ proc[p].n < MaxRows
    /\ proc[p].exc = ""
    /\ \E r \in LocalityRows :
          LET res == get_regions_and_subregions(get_spacy_preds(r.title_abstract),
                                                proc[p].GEONAMES_CACHE, proc[p].requests)
          IN  proc' = [proc EXCEPT ![p] =
                          [@ EXCEPT !.GEONAMES_CACHE = res.cache, !.requests = res.requests,
                                    !.n = @ + 1, !.row = r, !.exc = res.exc,
                                    !.out = IF res.exc = "" THEN res.regions ELSE <<>>]]
    /\ UNCHANGED <<cacheVars, ncalls, geoVars, runVars, fnIn, fnOut, fnPc>>

NextRows ==
    \/ \E p \in 1..2 : TissueRow(p)
    \/ \E p \in 1..2 : LocalityRow(p)

SpecRows == InitRows /\ [][NextRows]_vars

\* the two processes have just given the same row to the function
SameRow == proc[1].n > 0 /\ proc[2].n > 0 /\ proc[1].row = proc[2].row

\* Within one hash seed the caches do not show: the same row gives the same
\* output and the same exception after any earlier rows.
SameSeedSameOutput ==
    (SameRow /\ proc[1].seed = proc[2].seed) =>
        proc[1].out = proc[2].out /\ proc[1].exc = proc[2].exc

MaxPreds == 3

\* the texts of the predictions: countries under two of their names, a city
\* and a name geonames does not know
PredTexts == {"France", "USA", "United States", "Paris", "Atlantis"}

\* the lists get_spacy_preds can return: up to MaxPreds predictions, each text once
PredLists ==
    {l \in UNION {[1..n -> PredTexts] : n \in 0..MaxPreds} :
        \A i, j \in 1..Len(l) : l[i] = l[j] => i = j}

InitRegions ==
    /\ CacheInit /\ ncalls = 0 /\ GeoIdle /\ RunIdle
    /\ fnIn \in PredLists
    /\ fnOut = <<>>
    /\ fnPc = "ready"
    /\ proc = <<>>

\* get_regions_and_subregions(spacy_preds) in a module whose cache is empty
CallGetRegionsAndSubregions ==
    /\ fnPc = "ready"
    /\ fnOut' = get_regions_and_subregions(fnIn, EmptyDict, [l \in Locations |-> 0])
    /\ fnPc' = "done"
    /\ UNCHANGED <<cacheVars, ncalls, geoVars, runVars, fnIn, proc>>

NextRegions == CallGetRegionsAndSubregions

SpecRegions == InitRegions /\ [][NextRegions]_vars

\* text is in the found_as list of a region or in the list of a subregion
KeptIn(text, regions_) ==
    \E r \in DOMAIN regions_ :
        \/ \E k \in 1..Len(regions_[r].found_as) : regions_[r].found_as[k] = text
        \/ \E s \in DOMAIN regions_[r].subregions :
              \E k \in 1..Len(regions_[r].subregions[s]) : regions_[r].subregions[s][k] = text

\* C11: get_regions_and_subregions returns a dictionary that keeps every
\* prediction: each prediction's text is in the found_as list of a region or
\* in the alias list of a subregion, whatever the order of the predictions.
C11_EveryPredictionKept ==
    fnPc = "done" =>
        /\ fnOut.exc = ""
        /\ \A i \in 1..Len(fnIn) : KeptIn(fnIn[i], fnOut.regions)

\* Without a prediction that needs geonames the function returns, and still
\* loses a prediction: two names of one country take the same key.
RegionsReturnsAndLoses ==
    /\ fnPc = "done"
    /\ fnOut.exc = ""
    /\ \E i \in 1..Len(fnIn) : ~KeptIn(fnIn[i], fnOut.regions)

\* ---------------------------------------------------------------------------
\* create_labelled_species_spans.py: the labelled spans of a row, and convert.
\* A str is the sequence of its characters; a span is <<start, end, label>>.
\* ---------------------------------------------------------------------------

MaxTextWords == 3

\* all the orders of the elements of S: list(set(...)) gives one of them
RECURSIVE Perms(_)
Perms(S) ==
    IF S = {} THEN {<<>>}
    ELSE UNION {{<<x>> \o p : p \in Perms(S \ {x})} : x \in S}

\* the length of the match of (; | \|\|?) at the start of s, 0 if none
SepLen(s) ==
    IF Len(s) >= 2 /\ SubSeq(s, 1, 2) = <<";", " ">> THEN 2
    ELSE IF Len(s) >= 2 /\ SubSeq(s, 1, 2) = <<" ", "|">>
         THEN IF Len(s) >= 3 /\ s[3] = "|" THEN 3 ELSE 2
         ELSE 0

\* re.split(r'(; | \|\|?)', s): the pieces and, the pattern being a group, the
\* separators between them; cur is the piece being read
RECURSIVE ReSplit(_, _)
ReSplit(s, cur) ==
    IF s = <<>> THEN <<cur>>
    ELSE IF SepLen(s) > 0
         THEN <<cur, SubSeq(s, 1, SepLen(s))>> \o ReSplit(SubSeq(s, SepLen(s) + 1, Len(s)), <<>>)
         ELSE ReSplit(Tail(s), Append(cur, Head(s)))

\* the set built on line 81-82 of get_entity_spans
EntSet(ents_in_text) ==
    LET pieces == ReSplit(ents_in_text, <<>>)
        kept == SelectSeq(pieces, LAMBDA s : /\ ~Contains(<<"|">>, s) /\ ~Contains(<<";">>, s)
                                             /\ s # <<>> /\ s # <<" ">>)
    IN  {Strip(kept[k]) : k \in 1..Len(kept)}

\* get_abbreviated_species_name(species)
get_abbreviated_species_name(species) ==
    LET parts == Split(species, <<" ">>)
    IN  IF Len(parts) = 1 THEN parts[1]
        ELSE Join([k \in 1..(Len(parts) - 1) |-> <<parts[k][1], ".">>], <<" ">>)
             \o <<" ">> \o parts[Len(parts)]

\* the tokens of nlp(text), nlp being the blank English tokenizer and the
\* texts being words separated by blanks: the offsets at which a token starts
\* and ends
TokenStarts(text) ==
    {i \in 0..(Len(text) - 1) : text[i + 1] # " " /\ (i = 0 \/ text[i] = " ")}
TokenEnds(text) ==
    {j \in 1..Len(text) : text[j] # " " /\ (j = Len(text) \/ text[j + 1] = " ")}

\* doc.char_span(start, end): the token span, or None when the offsets are not
\* those of token boundaries
char_span(text, start, end) ==
    IF start \in TokenStarts(text) /\ end \in TokenEnds(text)
    THEN <<Cardinality({i \in TokenStarts(text) : i < start}),
           Cardinality({i \in TokenStarts(text) : i < end})>>
    ELSE <<>>

\* re.finditer(re.escape(subtext), text): the offsets of the matches from
\* offset `from` on, left to right, none overlapping another
RECURSIVE FindIter(_, _, _)
FindIter(subtext, text, from) ==
    IF from + Len(subtext) > Len(text) THEN <<>>
    ELSE IF SubSeq(text, from + 1, from + Len(subtext)) = subtext
         THEN <<from>> \o FindIter(subtext, text, from + Len(subtext))
         ELSE FindIter(subtext, text, from + 1)

\* get_match_spans(subtext, text, label)
get_match_spans(subtext, text, label) ==
    LET starts == FindIter(subtext, text, 0)
        spans == [k \in 1..Len(starts) |-> char_span(text, starts[k], starts[k] + Len(subtext))]
        found == SelectSeq(spans, LAMBDA span : span # <<>>)
    IN  [k \in 1..Len(found) |-> <<found[k][1], found[k][2], label>>]

\* the loop of get_entity_spans over the list ents
RECURSIVE EntitySpansOf(_, _, _)
EntitySpansOf(ents, text, label) ==
    IF ents = <<>> THEN <<>>
    ELSE LET ent == Head(ents)
             abbrev == get_abbreviated_species_name(ent)
         IN  (IF abbrev = ent THEN get_match_spans(ent, text, label)
              ELSE get_match_spans(ent, text, label) \o get_match_spans(abbrev, text, label))
             \o EntitySpansOf(Tail(ents), text, label)

\* get_entity_spans(ents_in_text, text, label), order being the order in which
\* list(set(...)) gives the entities
get_entity_spans(order, text, label) == EntitySpansOf(order, text, label)

\* is_overlapping_ent(ent_1, ent_2): the ranges are taken with their end
is_overlapping_ent(ent_1, ent_2) == (ent_1[1]..ent_1[2]) \cap (ent_2[1]..ent_2[2]) # {}

\* list.remove(x): without the first element equal to x
RECURSIVE ListRemove(_, _)
ListRemove(l, x) ==
    IF l = <<>> THEN l
    ELSE IF Head(l) = x THEN Tail(l) ELSE <<Head(l)>> \o ListRemove(Tail(l), x)

\* [l.remove(x) for x in xs]
RECURSIVE RemoveAllOf(_, _)
RemoveAllOf(l, xs) == IF xs = <<>> THEN l ELSE RemoveAllOf(ListRemove(l, Head(xs)), Tail(xs))

\* remove_overlapping_entities(ents_1, ents_2)
remove_overlapping_entities(ents_1, ents_2) ==
    LET ent_1_overlaps == SelectSeq(ents_1, LAMBDA ent :
                              \E k \in 1..Len(ents_2) : is_overlapping_ent(ent, ents_2[k]))
        ent_2_overlaps == SelectSeq(ents_2, LAMBDA ent :
                              \E k \in 1..Len(ents_1) : is_overlapping_ent(ent, ents_1[k]))
    IN  RemoveAllOf(ents_1, ent_1_overlaps) \o RemoveAllOf(ents_2, ent_2_overlaps)

\* get_labelled_entities(microsp_in_text, hosts_in_text, text)[1]['entities'],
\* for the orders the two sets are listed in
get_labelled_entities(microsp_order, hosts_order, text) ==
    remove_overlapping_entities(get_entity_spans(microsp_order, text, "MICROSPORIDIA"),
                                get_entity_spans(hosts_order, text, "HOST"))

\* doc.ents = [...] of convert raises ValueError when a token is in two spans
SetEntsRaises(entities) ==
    \E i, j \in 1..Len(entities) :
        /\ i # j
        /\ (entities[i][1]..(entities[i][2] - 1)) \cap (entities[j][1]..(entities[j][2] - 1)) # {}

\* the words of the texts and the values of the two columns
TextWords == {<<"a">>, <<"a", "b">>, <<"c">>}
RowTexts == {Join(ws, <<" ">>) : ws \in UNION {[1..n -> TextWords] : n \in 0..MaxTextWords}}
MicrospInText == {<<>>, <<"a">>, <<"a", " ", "c">>, <<"a", " ", "c", ";", " ", "a">>}
HostsInText == {<<>>, <<"c">>, <<"a", "b">>, <<"a", " ", "|", " ", "c">>}

InitSpans ==
    /\ CacheInit /\ ncalls = 0 /\ GeoIdle /\ RunIdle
    /\ fnIn \in {[microsp_in_text |-> m, hosts_in_text |-> h, text |-> t] :
                    m \in MicrospInText, h \in HostsInText, t \in RowTexts}
    /\ fnOut = <<>>
    /\ fnPc = "ready"
    /\ proc = <<>>

\* get_labelled_entities on the row (line 50-54)
CallGetLabelledEntities ==
    /\ fnPc = "ready"
    /\ \E microsp_order \in Perms(EntSet(fnIn.microsp_in_text)),
          hosts_order \in Perms(EntSet(fnIn.hosts_in_text)) :
          fnOut' = get_labelled_entities(microsp_order, hosts_order, fnIn.text)
    /\ fnPc' = "labelled"
    /\ UNCHANGED <<cacheVars, ncalls, geoVars, runVars, fnIn, proc>>

\* convert reaches the entry of the row (line 161-164)
Convert ==
    /\ fnPc = "labelled"
    /\ fnPc' = IF SetEntsRaises(fnOut) THEN "ValueError" ELSE "converted"
    /\ UNCHANGED <<cacheVars, ncalls, geoVars, runVars, fnIn, fnOut, proc>>

NextSpans == CallGetLabelledEntities \/ Convert

SpecSpans == InitSpans /\ [][NextSpans]_vars

\* C12: the entity list of a row holds no two entries, at different positions,
\* whose token ranges overlap or coincide, and convert assigns it to doc.ents
\* without raising.
C12_NoOverlappingEntities ==
    /\ fnPc \in {"labelled", "converted", "ValueError"} => ~SetEntsRaises(fnOut)
    /\ fnPc # "ValueError"

\* Between the two lists the removal works: no MICROSPORIDIA span is left that
\* shares a token with a HOST span.
NoOverlapBetweenLabels ==
    fnPc \in {"labelled", "converted", "ValueError"} =>
        \A i, j \in 1..Len(fnOut) :
            fnOut[i][3] # fnOut[j][3] => ~is_overlapping_ent(fnOut[i], fnOut[j])

\* ---------------------------------------------------------------------------
\* create_labelled_species_spans.py: get_labelled_train_test_data
\* ---------------------------------------------------------------------------

MaxTableRows == 3

\* the value pandas reads for an empty cell, among values that are strs
MissingCell == <<"NaN">>

\* the rows of formatted_species_host_data.csv considered; the two columns of
\* names found in the text are empty where there is no text
TableRows ==
    {[microsp_in_text |-> <<"a">>, hosts_in_text |-> <<"c">>, title_abstract |-> <<"a", " ", "c">>],
     [microsp_in_text |-> <<"a", " ", "c", ";", " ", "a">>, hosts_in_text |-> MissingCell, title_abstract |-> <<"a", " ", "c", " ", "a", "b">>],
     [microsp_in_text |-> MissingCell, hosts_in_text |-> <<"a", " ", "|", " ", "c">>, title_abstract |-> <<"c", " ", "a">>],
     [microsp_in_text |-> MissingCell, hosts_in_text |-> MissingCell, title_abstract |-> MissingCell]}

Tables == UNION {[1..n -> TableRows] : n \in 0..MaxTableRows}

\* labelled_ents_df[['hosts_in_text', 'microsp_in_text']].fillna(value='')
FillNaInText(df) ==
    LET fill(v) == IF v = MissingCell THEN <<>> ELSE v
    IN  [k \in 1..Len(df) |->
            [microsp_in_text |-> fill(df[k].microsp_in_text),
             hosts_in_text |-> fill(df[k].hosts_in_text),
             title_abstract |-> df[k].title_abstract]]

\* what get_labelled_entities can return for a row, list(set(...)) giving the
\* names in any order; with no name in either column nlp is not called and the
\* text is returned as it is
LabelledEntitiesOf(row) ==
    {[text |-> row.title_abstract,
      entities |-> get_labelled_entities(microsp_order, hosts_order, row.title_abstract)] :
        microsp_order \in Perms(EntSet(row.microsp_in_text)),
        hosts_order \in Perms(EntSet(row.hosts_in_text))}

\* int(round(n * 0.8)) computed as floor of the product
train_idx_floor(n) == (8 * n) \div 10

\* int(round(len(labelled_ents) * TRAIN_SPLIT)), TRAIN_SPLIT being 0.8: round()
\* gives the nearest integer and the even one of two that are equally near
train_idx_of(n) ==
    LET q == (8 * n) \div 10
        r == (8 * n) % 10
    IN  IF r < 5 THEN q
        ELSE IF r > 5 THEN q + 1
        ELSE IF q % 2 = 0 THEN q ELSE q + 1

\* get_labelled_train_test_data() on the table df: the list built by the loop
\* (each entry with the index of its row), the list after random.shuffle, for
\* the order `shuffle` the seeded generator gives, and the two slices
get_labelled_train_test_data(df, pick, shuffle) ==
    LET labelled_ents_df == FillNaInText(df)
        labelled_ents == [k \in 1..Len(df) |->
                             [row |-> k, entry |-> pick[labelled_ents_df[k]]]]
        shuffled == [k \in 1..Len(df) |-> labelled_ents[shuffle[k]]]
        train_idx == train_idx_of(Len(shuffled))
    IN  [labelled_ents |-> labelled_ents, shuffled |-> shuffled,
         train |-> SubSeq(shuffled, 1, train_idx),
         test |-> SubSeq(shuffled, train_idx + 1, Len(shuffled))]

InitSplit ==
    /\ CacheInit /\ ncalls = 0 /\ GeoIdle /\ RunIdle
    /\ fnIn \in Tables
    /\ fnOut = <<>>
    /\ fnPc = "ready"
    /\ proc = <<>>

\* main() calls get_labelled_train_test_data (line 31)
CallGetLabelledTrainTestData ==
    /\ fnPc = "ready"
    /\ LET rows == {FillNaInText(fnIn)[k] : k \in 1..Len(fnIn)}
       IN  \E pick \in {f \in [rows -> UNION {LabelledEntitiesOf(r) : r \in rows}] :
                           \A r \in rows : f[r] \in LabelledEntitiesOf(r)},
              shuffle \in Perms(1..Len(fnIn)) :
              fnOut' = get_labelled_train_test_data(fnIn, pick, shuffle)
    /\ fnPc' = "done"
    /\ UNCHANGED <<cacheVars, ncalls, geoVars, runVars, fnIn, proc>>

NextSplit == CallGetLabelledTrainTestData

SpecSplit == InitSplit /\ [][NextSplit]_vars

\* the rows whose entries are in the list l
RowsIn(l) == {l[k].row : k \in 1..Len(l)}

MaxResults == 2

\* the search results geonames can give
GeonamesResults ==
    {[country |-> "France", address |-> "Paris"],
     [country |-> "United States", address |-> "Paris"],
     [country |-> "", address |-> "Weddell Sea"],
     [country |-> "France", address |-> "Lyon"]}

InitMostLikely ==
    /\ CacheInit /\ ncalls = 0 /\ GeoIdle /\ RunIdle
    /\ fnIn \in {[location |-> l, geonames_result |-> g, geo_preds_regions |-> r] :
                    l \in {"Paris", "Weddell Sea"},
                    g \in UNION {[1..n -> GeonamesResults] : n \in 1..MaxResults},
                    r \in SUBSET {"France", "United States"}}
    /\ fnOut = <<>>
    /\ fnPc = "ready"
    /\ proc = <<>>

\* the call of predict_localities.py:165-166
CallGetMostLikelyRegion ==
    /\ fnPc = "ready"
    /\ fnOut' = get_most_likely_region(fnIn.location, fnIn.geonames_result,
                                       fnIn.geo_preds_regions)
    /\ fnPc' = "done"
    /\ UNCHANGED <<cacheVars, ncalls, geoVars, runVars, fnIn, proc>>

NextMostLikely == CallGetMostLikelyRegion

SpecMostLikely == InitMostLikely /\ [][NextMostLikely]_vars

\* the results whose country is among the regions identified in the text
InIdentifiedRegion(geonames_result, geo_preds_regions) ==
    SelectSeq(geonames_result, LAMBDA res : res.country \in geo_preds_regions)

\* the top hit: the first result whose address is the location, else the first
TopHit(location, geonames_result) ==
    IF \E k \in 1..Len(geonames_result) : geonames_result[k].address = location
    THEN geonames_result[CHOOSE k \in 1..Len(geonames_result) :
                            /\ geonames_result[k].address = location
                            /\ \A j \in 1..(k - 1) : geonames_result[j].address # location]
    ELSE geonames_result[1]

\* C14: for a non-empty result list get_most_likely_region returns the
\* (country, address) of the first result whose country is among the regions
\* identified in the text; when there is none, the (country, address) of the
\* top hit, or (address, address) when the top hit has no country.
C14_MostLikelyRegion ==
    fnPc = "done" =>
        LET likely == InIdentifiedRegion(fnIn.geonames_result, fnIn.geo_preds_regions)
            top == TopHit(fnIn.location, fnIn.geonames_result)
        IN  /\ fnOut.raised = ""
            /\ fnOut.value = IF likely # <<>> THEN <<likely[1].country, likely[1].address>>
                             ELSE IF top.country = "" THEN <<top.address, top.address>>
                             ELSE <<top.country, top.address>>

\* ---------------------------------------------------------------------------
\* get_spacy_preds: the unique locality predictions of a text
\* ---------------------------------------------------------------------------

MaxEnts == 3

SPACY_LOCALITIES == {"FAC", "GPE", "LOC"}

\* the kinds of entity nlp(txt).ents holds: the tokens, with their part of
\* speech, and the label
EntKinds ==
    {[toks |-> <<[text |-> "Paris", pos |-> "PROPN"]>>, label |-> "GPE"],
     [toks |-> <<[text |-> "the", pos |-> "DET"], [text |-> "Weddell Sea", pos |-> "PROPN"]>>,
      label |-> "LOC"],
     [toks |-> <<[text |-> "Weddell Sea", pos |-> "PROPN"]>>, label |-> "LOC"],
     [toks |-> <<[text |-> "Nosema", pos |-> "PROPN"]>>, label |-> "ORG"]}

\* nlp(txt).ents for the texts considered: up to MaxEnts entities, one after
\* the other in the text; two Spans are equal when they are at the same place
DocEnts ==
    {[k \in 1..Len(kinds) |-> [start |-> k, toks |-> kinds[k].toks, label |-> kinds[k].label]] :
        kinds \in UNION {[1..n -> EntKinds] : n \in 0..MaxEnts}}

\* span.text
TextOfToks(toks) == [k \in 1..Len(toks) |-> toks[k].text]

\* remove_leading_determinant(span)
remove_leading_determinant(span) ==
    IF span.toks[1].pos = "DET" THEN TextOfToks(Tail(span.toks)) ELSE TextOfToks(span.toks)

\* the loop of get_spacy_preds (line 84-91): `for pred in spacy_preds` reads
\* the element at index i of the list as it is then, i counting from 0
RECURSIVE UniqueLoop(_, _, _)
UniqueLoop(spacy_preds, i, loc_names) ==
    IF i >= Len(spacy_preds) THEN spacy_preds
    ELSE LET pred == spacy_preds[i + 1]
         IN  IF remove_leading_determinant(pred) \in loc_names
             THEN UniqueLoop(ListRemove(spacy_preds, pred), i + 1, loc_names)
             ELSE UniqueLoop(spacy_preds, i + 1,
                             loc_names \cup {remove_leading_determinant(pred)})

\* get_spacy_preds(txt), ents being nlp(txt).ents
get_spacy_preds_of(ents) ==
    UniqueLoop(SelectSeq(ents, LAMBDA ent : ent.label \in SPACY_LOCALITIES), 0, {})

InitPreds ==
    /\ CacheInit /\ ncalls = 0 /\ GeoIdle /\ RunIdle
    /\ fnIn \in DocEnts
    /\ fnOut = <<>>
    /\ fnPc = "ready"
    /\ proc = <<>>

\* predict_localities calls get_spacy_preds (line 236)
CallGetSpacyPreds ==
    /\ fnPc = "ready"
    /\ fnOut' = get_spacy_preds_of(fnIn)
    /\ fnPc' = "done"
    /\ UNCHANGED <<cacheVars, ncalls, geoVars, runVars, fnIn, proc>>

NextPreds == CallGetSpacyPreds

SpecPreds == InitPreds /\ [][NextPreds]_vars

\* the locality names of a list of entities
LocalityNames(ents) ==
    {remove_leading_determinant(ents[k]) :
        k \in {j \in 1..Len(ents) : ents[j].label \in SPACY_LOCALITIES}}

\* C15: get_spacy_preds returns only unique locality predictions: no two
\* returned spans have the same text after removal of a leading determiner,
\* and every distinct locality name of the input has one returned span.
C15_UniquePredictions ==
    fnPc = "done" =>
        /\ \A i, j \in 1..Len(fnOut) :
              remove_leading_determinant(fnOut[i]) = remove_leading_determinant(fnOut[j]) => i = j
        /\ LocalityNames(fnOut) = LocalityNames(fnIn)

\* Every locality name of the input is still in the list returned.
EveryNameReturned == fnPc = "done" => LocalityNames(fnOut) = LocalityNames(fnIn)

\* ---------------------------------------------------------------------------
\* create_locality_dictionary: the recorded localities as a dictionary
\* ---------------------------------------------------------------------------

MaxEntries == 2

\* re.search('(?<=\().+(?=\))', loc): the text from the first '(' to the last
\* ')' after it, both left out, when it has a character; [found, group]
SearchSubregions(loc) ==
    LET opens == {i \in 1..Len(loc) : loc[i] = "(" /\ \E j \in (i + 2)..Len(loc) : loc[j] = ")"}
        start == CHOOSE i \in opens : \A o \in opens : i <= o
        end == CHOOSE j \in (start + 2)..Len(loc) :
                   loc[j] = ")" /\ \A k \in (j + 1)..Len(loc) : loc[k] # ")"
    IN  IF opens = {} THEN [found |-> FALSE, group |-> <<>>]
        ELSE [found |-> TRUE, group |-> SubSeq(loc, start + 1, end - 1)]

\* [item for l in [s.split(', ') for s in group.split(' | ')] for item in l]
SubregionItems(group) ==
    LET bars == Split(group, <<" ", "|", " ">>)
    IN  Flatten([k \in 1..Len(bars) |-> Split(bars[k], <<",", " ">>)])

\* the loop of create_locality_dictionary from the k-th entry on
RECURSIVE LocalityLoop(_, _, _)
LocalityLoop(recorded_locs, k, locs_dict) ==
    IF k > Len(recorded_locs) THEN locs_dict
    ELSE LET loc == recorded_locs[k]
             region == Strip(Split(loc, <<"(">>)[1])
             found == SearchSubregions(loc)
             subregions == IF found.found THEN SubregionItems(found.group) ELSE <<>>
         IN  LocalityLoop(recorded_locs, k + 1,
                 Put(locs_dict, region,
                     [subregions |-> [s \in {subregions[j] : j \in 1..Len(subregions)} |-> <<s>>],
                      found_as |-> <<region>>]))

\* create_locality_dictionary(recorded_locs)
create_locality_dictionary(recorded_locs) ==
    LET split == Split(recorded_locs, <<";">>)
    IN  LocalityLoop([k \in 1..Len(split) |-> Strip(split[k])], 1, EmptyDict)

\* the entries a recorded string holds: a region and the groups, separated by
\* ' | ', of its subregions, separated by ', '
RecordedRegions == {<<"U", ".", "S", ".">>, <<"B", "e", "l", "a", "r", "u", "s">>}
RecordedGroups == {<<>>, << <<<<"M", "i", "a", "m", "i">>>> >>, << <<<<"B", "a", "l", "t", "i", "m", "o", "r", "e">>>>, <<<<"M", "i", "a", "m", "i">>, <<"F", "l", "o", "r", "i", "d", "a">>>> >>,
                   << <<<<"M", "i", "n", "s", "k">>>>, <<<<"B", "r", "e", "s", "t">>>> >>}
RecordedEntries == {[region |-> r, groups |-> g] : r \in RecordedRegions, g \in RecordedGroups}

\* the text of an entry: U.S. (Baltimore | Miami, Florida)
LocalityEntryText(e) ==
    IF e.groups = <<>> THEN e.region
    ELSE e.region \o <<" ", "(">> \o Join([k \in 1..Len(e.groups) |-> Join(e.groups[k], <<",", " ">>)], <<" ", "|", " ">>) \o <<")">>

\* the recorded string of a list of entries
LocalityText(entries) == Join([k \in 1..Len(entries) |-> LocalityEntryText(entries[k])], <<";", " ">>)

InitLocDict ==
    /\ CacheInit /\ ncalls = 0 /\ GeoIdle /\ RunIdle
    /\ fnIn \in UNION {[1..n -> RecordedEntries] : n \in 1..MaxEntries}
    /\ fnOut = <<>>
    /\ fnPc = "ready"
    /\ proc = <<>>

\* normalize_recorded_localities calls create_locality_dictionary (line 395)
CallCreateLocalityDictionary ==
    /\ fnPc = "ready"
    /\ fnOut' = create_locality_dictionary(LocalityText(fnIn))
    /\ fnPc' = "done"
    /\ UNCHANGED <<cacheVars, ncalls, geoVars, runVars, fnIn, proc>>

NextLocDict == CallCreateLocalityDictionary

SpecLocDict == InitLocDict /\ [][NextLocDict]_vars

\* the subregions of an entry
PiecesOf(e) == {Flatten(e.groups)[j] : j \in 1..Len(Flatten(e.groups))}

\* C16: create_locality_dictionary gives, for each ';'-separated entry, a key
\* equal to the entry's text before '(' with found_as = [key] and a subregion
\* s -> [s] for each piece of the parenthesized text: every region and every
\* subregion of every recorded entry is in the dictionary returned.
C16_LocalityDictionary ==
    fnPc = "done" =>
        /\ DOMAIN fnOut = {fnIn[k].region : k \in 1..Len(fnIn)}
        /\ \A k \in 1..Len(fnIn) :
              /\ fnIn[k].region \in DOMAIN fnOut
              /\ fnOut[fnIn[k].region].found_as = <<fnIn[k].region>>
              /\ \A s \in PiecesOf(fnIn[k]) :
                    /\ s \in DOMAIN fnOut[fnIn[k].region].subregions
                    /\ fnOut[fnIn[k].region].subregions[s] = <<s>>

\* For the last entry of each region the dictionary is as the entry says.
LastEntryOfRegionKept ==
    fnPc = "done" =>
        \A k \in 1..Len(fnIn) :
            (\A j \in (k + 1)..Len(fnIn) : fnIn[j].region # fnIn[k].region) =>
                /\ fnIn[k].region \in DOMAIN fnOut
                /\ fnOut[fnIn[k].region].found_as = <<fnIn[k].region>>
                /\ DOMAIN fnOut[fnIn[k].region].subregions = PiecesOf(fnIn[k])
                /\ \A s \in PiecesOf(fnIn[k]) : fnOut[fnIn[k].region].subregions[s] = <<s>>

\* ---------------------------------------------------------------------------
\* flashgeotext_normalize_recorded_localities
\* ---------------------------------------------------------------------------

MaxRegions == 2

\* the names flashgeotext knows: canonical name -> the names it is found as
FlashgeotextCountries == [c \in {"United States"} |-> {"USA", "United States"}]
FlashgeotextCities == [c \in {"New York City"} |-> {"NYC"}]

\* geotext.extract(recorded_locs)[kind]: the canonical names of which a name
\* is in the text, each with the names it was found as
Extracted(known, names) ==
    [c \in {k \in DOMAIN known : known[k] \cap names # {}} |->
        [found_as |-> known[c] \cap names]]

\* d.pop(k) of a dict that holds k: the dict without k
Pop(d, k) == [x \in (DOMAIN d) \ {k} |-> d[x]]

\* the value of key in a dict kept in insertion order
DictGet(d, key) == (CHOOSE e \in {d[j] : j \in 1..Len(d)} : e.key = key).val

\* the loop over the subregions of a region (line 328-345), from the k-th on;
\* key is normalized_region if the region was normalized, else the region
RECURSIVE FlashSubregions(_, _, _, _, _)
FlashSubregions(subregions, k, key, cities, st) ==
    IF k > Len(subregions) \/ st.exc # "" THEN st
    ELSE LET subregion == subregions[k]
             hits == {c \in DOMAIN cities : subregion \in cities[c].found_as}
             city == CHOOSE c \in hits : TRUE
             subs == st.normalized_locs[key].subregions
             unn == DictGet(st.unnormalized_locs, key)
         IN  IF hits = {} THEN FlashSubregions(subregions, k + 1, key, cities, st)
             ELSE IF subregion \notin DOMAIN subs
             THEN [st EXCEPT !.exc = "KeyError"]
             ELSE IF \A j \in 1..Len(unn.subregions) : unn.subregions[j] # subregion
             THEN [st EXCEPT !.exc = "ValueError"]
             ELSE FlashSubregions(subregions, k + 1, key, cities,
                     [st EXCEPT !.normalized_locs[key].subregions =
                                    Put(Pop(subs, subregion), city, subs[subregion]),
                                !.unnormalized_locs =
                                    DictSet(@, key, [unn EXCEPT !.subregions =
                                                        ListRemove(@, subregion)])])

\* the loop over the regions of recorded_locs_dict (line 305-345), in the
\* order of insertion, from the k-th on
RECURSIVE FlashRegions(_, _, _, _, _)
FlashRegions(recorded, k, countries, cities, st) ==
    IF k > Len(recorded) \/ st.exc # "" THEN st
    ELSE LET region == recorded[k].region
             hits == {c \in DOMAIN countries : region \in countries[c].found_as}
             normalized_region == IF hits = {} THEN "" ELSE CHOOSE c \in hits : TRUE
             key == IF normalized_region = "" THEN region ELSE normalized_region
         IN  IF hits # {} /\ region \notin DOMAIN st.normalized_locs
             THEN [st EXCEPT !.exc = "KeyError"]
             ELSE FlashRegions(recorded, k + 1, countries, cities,
                     FlashSubregions(recorded[k].subregions, 1, key, cities,
                         [st EXCEPT !.normalized_locs =
                                        IF hits = {} THEN @
                                        ELSE Put(Pop(@, region), normalized_region, @[region]),
                                    !.unnormalized_locs =
                                        DictSet(@, key,
                                                [subregions |-> recorded[k].subregions,
                                                 normalized_region |-> hits # {}])]))

\* the dict create_locality_dictionary makes of the entries `recorded`
LocsDictOf(recorded) ==
    [r \in {recorded[k].region : k \in 1..Len(recorded)} |->
        LET e == CHOOSE x \in {recorded[k] : k \in 1..Len(recorded)} : x.region = r
        IN  [subregions |-> [s \in {e.subregions[j] : j \in 1..Len(e.subregions)} |-> <<s>>],
             found_as |-> <<r>>]]

\* the names in the recorded string
NamesOf(recorded) ==
    {recorded[k].region : k \in 1..Len(recorded)}
        \cup UNION {{recorded[k].subregions[j] : j \in 1..Len(recorded[k].subregions)} :
                       k \in 1..Len(recorded)}

\* flashgeotext_normalize_recorded_localities(recorded_locs_dict, recorded_locs),
\* `recorded` being the entries of recorded_locs in their order, which is the
\* order of the keys of recorded_locs_dict
flashgeotext_normalize_recorded_localities(recorded) ==
    LET recorded_locs_dict == LocsDictOf(recorded)
        st == FlashRegions(recorded, 1,
                           Extracted(FlashgeotextCountries, NamesOf(recorded)),
                           Extracted(FlashgeotextCities, NamesOf(recorded)),
                           [normalized_locs |-> recorded_locs_dict,
                            unnormalized_locs |-> <<>>, exc |-> ""])
    IN  [normalized_locs |-> st.normalized_locs, unnormalized_locs |-> st.unnormalized_locs,
         recorded_locs_dict |-> recorded_locs_dict, exc |-> st.exc]

\* the recorded entries considered: each region once
RecordedLocs ==
    {l \in UNION {[1..n -> {[region |-> r, subregions |-> s] :
                               r \in {"USA", "United States", "Atlantis"},
                               s \in {<<>>, <<"NYC">>, <<"NYC", "Lemuria">>}}] :
                     n \in 1..MaxRegions} :
        \A i, j \in 1..Len(l) : l[i].region = l[j].region => i = j}

InitFlash ==
    /\ CacheInit /\ ncalls = 0 /\ GeoIdle /\ RunIdle
    /\ fnIn \in RecordedLocs
    /\ fnOut = <<>>
    /\ fnPc = "ready"
    /\ proc = <<>>

\* normalize_recorded_localities calls the function (line 400-403)
CallFlashgeotextNormalize ==
    /\ fnPc = "ready"
    /\ fnOut' = flashgeotext_normalize_recorded_localities(fnIn)
    /\ fnPc' = "done"
    /\ UNCHANGED <<cacheVars, ncalls, geoVars, runVars, fnIn, proc>>

NextFlash == CallFlashgeotextNormalize

SpecFlash == InitFlash /\ [][NextFlash]_vars

\* the name a recorded name has after flashgeotext
CanonicalOf(known, name) ==
    IF \E c \in DOMAIN known : name \in known[c]
    THEN CHOOSE c \in DOMAIN known : name \in known[c]
    ELSE name

\* the key is in the unnormalized dictionary and lists the subregion
ListedUnnormalized(unnormalized_locs, key, subregion) ==
    \E j \in 1..Len(unnormalized_locs) :
        /\ unnormalized_locs[j].key = key
        /\ \E i \in 1..Len(unnormalized_locs[j].val.subregions) :
              unnormalized_locs[j].val.subregions[i] = subregion

\* what the claim says of the k-th recorded entry
FlashEntryKept(k) ==
    LET region == CanonicalOf(FlashgeotextCountries, fnIn[k].region)
    IN  /\ region \in DOMAIN fnOut.normalized_locs
        /\ \A j \in 1..Len(fnIn[k].subregions) :
              LET s == fnIn[k].subregions[j]
              IN  /\ CanonicalOf(FlashgeotextCities, s)
                        \in DOMAIN fnOut.normalized_locs[region].subregions
                  /\ ListedUnnormalized(fnOut.unnormalized_locs, region, s)
                        <=> (CanonicalOf(FlashgeotextCities, s) = s)

\* C17: flashgeotext_normalize_recorded_localities leaves recorded_locs_dict
\* unchanged, raises nothing, and returns a normalized dictionary that holds
\* every recorded region and subregion, under the flashgeotext name when it was
\* detected and under the recorded name otherwise; a subregion is listed as
\* unnormalized exactly when flashgeotext did not detect it.
C17_FlashgeotextNormalize ==
    fnPc = "done" =>
        /\ fnOut.exc = ""
        /\ fnOut.recorded_locs_dict = LocsDictOf(fnIn)
        /\ \A k \in 1..Len(fnIn) : FlashEntryKept(k)

\* When no two recorded regions have the same name after flashgeotext, the
\* dictionaries returned are as the claim says.
FlashKeptWithoutCollision ==
    (fnPc = "done" /\ \A i, j \in 1..Len(fnIn) :
                         CanonicalOf(FlashgeotextCountries, fnIn[i].region)
                             = CanonicalOf(FlashgeotextCountries, fnIn[j].region) => i = j) =>
        /\ fnOut.exc = ""
        /\ \A k \in 1..Len(fnIn) : FlashEntryKept(k)

\* ---------------------------------------------------------------------------
\* geonames_normalize_recorded_localities
\* ---------------------------------------------------------------------------

\* get_geonames_canonical_region(region): the canonical name geonames has for
\* the region, None when it has none
get_geonames_canonical_region(region) ==
    IF region = "Holland" THEN "Netherlands" ELSE None

\* get_geonames_canonical_subregion(subregion, region): the canonical name
\* geonames has for the subregion, None when it has none
get_geonames_canonical_subregion(subregion, region) ==
    CASE subregion = "Den Haag" -> "The Hague"
      [] subregion = "A'dam" -> "Amsterdam"
      [] OTHER -> None

\* the slot a deleted key leaves in the entries of a dict
Deleted == [key |-> "<dummy>", val |-> [subregions |-> <<>>, normalized_region |-> FALSE]]

\* the index of key in the entries of a dict, 0 if it is not a key
SlotOf(entries, key) ==
    IF \E i \in 1..Len(entries) : entries[i].key = key
    THEN CHOOSE i \in 1..Len(entries) : entries[i].key = key
    ELSE 0

\* the loop over unnormalized_locs[normalized_region]['subregions'] (line
\* 374-382): the list iterator reads index j of the list as it is then; slot
\* is the place of the region in the entries of unnormalized_locs
RECURSIVE GeonamesSubregions(_, _, _, _)
GeonamesSubregions(st, slot, j, normalized_region) ==
    LET list == st.entries[slot].val.subregions
    IN  IF st.exc # "" \/ j >= Len(list) THEN st
        ELSE LET subregion == list[j + 1]
                 normalized_subregion ==
                     get_geonames_canonical_subregion(subregion, normalized_region)
                 looked == [st EXCEPT !.log = Append(@, [did |-> "subregion", name |-> subregion, of |-> normalized_region])]
                 subs == st.recorded[normalized_region].subregions
             IN  IF normalized_subregion = None
                 THEN GeonamesSubregions(looked, slot, j + 1, normalized_region)
                 ELSE IF subregion \notin DOMAIN subs
                 THEN [looked EXCEPT !.exc = "KeyError"]
                 ELSE GeonamesSubregions(
                          [looked EXCEPT
                              !.recorded[normalized_region].subregions =
                                  Put(Pop(subs, subregion), normalized_subregion, subs[subregion]),
                              !.entries[slot].val.subregions = ListRemove(list, subregion)],
                          slot, j + 1, normalized_region)

\* the body of the loop for the region in slot i (line 357-372): the state
\* after the region's own lookup, and the slot the region is in then
GeonamesRegion(st, i) ==
    LET region == st.entries[i].key
        visited == [st EXCEPT !.log = Append(@, [did |-> "visit", name |-> region, of |-> ""])]
        looked == [visited EXCEPT !.log = Append(@, [did |-> "region", name |-> region, of |-> ""])]
        found == get_geonames_canonical_region(region)
        moved == [st.entries[i].val EXCEPT !.normalized_region = TRUE]
    IN  IF st.entries[i].val.normalized_region
        THEN [st |-> visited, slot |-> i, normalized_region |-> region]
        ELSE IF found = None
        THEN [st |-> looked, slot |-> i, normalized_region |-> region]
        ELSE IF region \notin DOMAIN st.recorded
        THEN [st |-> [looked EXCEPT !.exc = "KeyError"], slot |-> i, normalized_region |-> region]
        ELSE LET popped == [st.entries EXCEPT ![i] = Deleted]
                 entries == IF SlotOf(popped, found) # 0
                            THEN [popped EXCEPT ![SlotOf(popped, found)].val = moved]
                            ELSE Append(popped, [key |-> found, val |-> moved])
             IN  [st |-> [looked EXCEPT !.recorded = Put(Pop(@, region), found, @[region]),
                                        !.entries = entries],
                  slot |-> SlotOf(entries, found), normalized_region |-> found]

\* `for region in unnormalized_locs` (line 357): the dict iterator goes through
\* the entries from slot pos on and counts the keys the dict had at the start;
\* a key it meets after those raises RuntimeError from Python 3.8 on and is
\* visited like the others before
RECURSIVE GeonamesRegions(_, _, _, _)
GeonamesRegions(st, pos, remaining, python) ==
    LET live == {i \in (pos + 1)..Len(st.entries) : st.entries[i] # Deleted}
        i == CHOOSE x \in live : \A y \in live : x <= y
        r == GeonamesRegion(st, i)
    IN  IF st.exc # "" \/ live = {} THEN st
        ELSE IF remaining = 0 /\ python = "3.8"
        THEN [st EXCEPT !.exc = "RuntimeError"]
        ELSE GeonamesRegions(GeonamesSubregions(r.st, r.slot, 0, r.normalized_region),
                             i, remaining - 1, python)

\* geonames_normalize_recorded_localities(unnormalized_locs, recorded_locs_dict)
\* under a version of Python: the two dicts after the call, what was visited
\* and looked up, and the exception
geonames_normalize_recorded_localities(unnormalized_locs, recorded_locs_dict, python) ==
    LET st == GeonamesRegions([entries |-> unnormalized_locs, recorded |-> recorded_locs_dict,
                               log |-> <<>>, exc |-> ""],
                              0, Len(unnormalized_locs), python)
    IN  [unnormalized_locs |-> SelectSeq(st.entries, LAMBDA e : e # Deleted),
         recorded_locs_dict |-> st.recorded, log |-> st.log, exc |-> st.exc]

\* the unnormalized_locs flashgeotext_normalize_recorded_localities can return:
\* each region once, with the subregions flashgeotext did not detect
UnnormalizedLocs ==
    {l \in UNION {[1..n -> {[key |-> r.key,
                             val |-> [subregions |-> s, normalized_region |-> r.normalized]] :
                               r \in {[key |-> "Belarus", normalized |-> TRUE],
                                      [key |-> "Holland", normalized |-> FALSE],
                                      [key |-> "Atlantis", normalized |-> FALSE]},
                               s \in {<<>>, <<"Lemuria">>, <<"Den Haag", "A'dam">>,
                                      <<"Lemuria", "Den Haag">>}}] :
                     n \in 1..MaxRegions} :
        \A i, j \in 1..Len(l) : l[i].key = l[j].key => i = j}

\* the recorded_locs_dict that goes with it
RecordedDictOf(unnormalized_locs) ==
    [r \in {unnormalized_locs[k].key : k \in 1..Len(unnormalized_locs)} |->
        LET e == CHOOSE x \in {unnormalized_locs[k] : k \in 1..Len(unnormalized_locs)} : x.key = r
        IN  [subregions |-> [s \in {e.val.subregions[j] : j \in 1..Len(e.val.subregions)} |-> <<s>>],
             found_as |-> <<r>>]]

InitGeonames ==
    /\ CacheInit /\ ncalls = 0 /\ GeoIdle /\ RunIdle
    /\ fnIn \in {[unnormalized_locs |-> u, python |-> v] :
                    u \in UnnormalizedLocs, v \in {"3.7", "3.8"}}
    /\ fnOut = <<>>
    /\ fnPc = "ready"
    /\ proc = <<>>

\* normalize_recorded_localities calls the function (line 408)
CallGeonamesNormalize ==
    /\ fnPc = "ready"
    /\ fnOut' = geonames_normalize_recorded_localities(
                    fnIn.unnormalized_locs, RecordedDictOf(fnIn.unnormalized_locs), fnIn.python)
    /\ fnPc' = "done"
    /\ UNCHANGED <<cacheVars, ncalls, geoVars, runVars, fnIn, proc>>

NextGeonames == CallGeonamesNormalize

SpecGeonames == InitGeonames /\ [][NextGeonames]_vars

\* how often the log holds the entry
TimesLogged(log, did, name, of) ==
    Cardinality({k \in 1..Len(log) : log[k] = [did |-> did, name |-> name, of |-> of]})

\* the name under which geonames leaves a name
GeonamesNameOf(found, name) == IF found = None THEN name ELSE found

\* what the claim says of the k-th region of unnormalized_locs
GeonamesEntryDone(k) ==
    LET e == fnIn.unnormalized_locs[k]
        region == IF e.val.normalized_region THEN e.key
                  ELSE GeonamesNameOf(get_geonames_canonical_region(e.key), e.key)
    IN  /\ TimesLogged(fnOut.log, "visit", e.key, "") = 1
        /\ TimesLogged(fnOut.log, "region", e.key, "") = IF e.val.normalized_region THEN 0 ELSE 1
        /\ region \in DOMAIN fnOut.recorded_locs_dict
        /\ \A j \in 1..Len(e.val.subregions) :
              LET s == e.val.subregions[j]
              IN  /\ TimesLogged(fnOut.log, "subregion", s, region) = 1
                  /\ GeonamesNameOf(get_geonames_canonical_subregion(s, region), s)
                        \in DOMAIN fnOut.recorded_locs_dict[region].subregions

\* C18: geonames_normalize_recorded_localities visits every region of
\* unnormalized_locs once and, for each, every listed subregion once: each
\* region not normalized by flashgeotext and each listed subregion is looked up,
\* gets its canonical name in recorded_locs_dict when one is found and keeps
\* its recorded name otherwise; no listed subregion is skipped.
C18_GeonamesNormalize ==
    fnPc = "done" =>
        /\ fnOut.exc = ""
        /\ \A k \in 1..Len(fnIn.unnormalized_locs) : GeonamesEntryDone(k)
        /\ Cardinality({k \in 1..Len(fnOut.log) : fnOut.log[k].did = "visit"})
              = Len(fnIn.unnormalized_locs)

\* no region and no subregion of unnormalized_locs has a canonical name
NothingFound ==
    \A k \in 1..Len(fnIn.unnormalized_locs) :
        LET e == fnIn.unnormalized_locs[k]
        IN  /\ e.val.normalized_region \/ get_geonames_canonical_region(e.key) = None
            /\ \A j \in 1..Len(e.val.subregions) :
                  get_geonames_canonical_subregion(e.val.subregions[j], e.key) = None

\* When every lookup returns None, the function is as the claim says.
GeonamesDoneWhenNothingFound ==
    (fnPc = "done" /\ NothingFound) =>
        /\ fnOut.exc = ""
        /\ \A k \in 1..Len(fnIn.unnormalized_locs) : GeonamesEntryDone(k)

\* Without a change of Python version in play: a subregion that follows a
\* normalized one in the list is never looked up.
SubregionSkipped ==
    /\ fnPc = "done"
    /\ fnOut.exc = ""
    /\ fnIn.unnormalized_locs = <<[key |-> "Belarus",
                                   val |-> [subregions |-> <<"Den Haag", "A'dam">>,
                                            normalized_region |-> TRUE]]>>
    /\ TimesLogged(fnOut.log, "subregion", "A'dam", "Belarus") = 0

====
